---- MODULE Spec2Model ----
(***************************************************************************)
(* Model of the Chinese-character learning application: the auth route,    *)
(* the three per-user CSV stores (characters, progress, quiz-history), the *)
(* browser's cookie jar, the quiz component and the dashboard aggregator.  *)
(*                                                                         *)
(* A string is a sequence of symbols, one per character; the symbols ","   *)
(* and " " are the comma and the blank, and no string holds a line break.  *)
(* A stored file is the sequence of its lines after the fixed header line, *)
(* each line the string the route's toCSV writes and its parseCSV splits.  *)
(* The empty sequence stands for both the empty string and null/undefined: *)
(* every place of the source that distinguishes them does so with a        *)
(* truthiness test (!x, x || y), under which the two agree.                *)
(*                                                                         *)
(* The response of a route is computed once per step: an action binds it   *)
(* with \E reply \in {...}, a set of one element.                          *)
(*                                                                         *)
(* The whole system is Spec.  Each part of it is also studied on its own,  *)
(* from a state the whole system reaches, under a specification of its own *)
(* (SpecAuth, SpecPage, SpecChars, SpecProgress, SpecDash, SpecHistory,    *)
(* SpecData, SpecQuiz, ...) whose inputs are chosen for the part.          *)
(*                                                                         *)
(* A route handler runs in the single thread of the server's event loop:   *)
(* it is interrupted only where it awaits.  ApiProgressPOST and the other  *)
(* Api actions are a handler run from the request to the response with no  *)
(* other request in between; ReceiveProgressPOST and AnswerProgressPOST    *)
(* are the two parts of POST /api/progress, before and after its one       *)
(* await, between which other requests are served.                         *)
(***************************************************************************)
EXTENDS Integers, Sequences, FiniteSets, TLC

VARIABLES
    now,            \* Date.now(), the wall clock
    usersFile,      \* data/users.csv
    userDirs,       \* the directories data/users/<name> that exist
    charFile,       \* data/users/<name>/characters.csv
    progFile,       \* data/users/<name>/progress.csv
    histFile,       \* data/users/<name>/quiz-history.csv
    submitted,      \* per user: the increments merged since the last clear
    inflight,       \* the POST /api/progress requests received and not yet answered
    jar,            \* the browser's cookies for the site
    appUser,        \* page.tsx: the `user` state of Home
    currentPage,    \* page.tsx: the `currentPage` state of Home
    last,           \* the requests of the last step, with their responses
    allCharacters,  \* quiz-mode.tsx state
    quizType,
    characterCount,
    quizCharacters,
    currentIndex,
    feedback,
    sessionStats,
    quizComplete,
    timer,          \* the timeout of the auto-advance effect
    pinyinOptions,  \* the options shown for the current question
    multipleChoiceOptions,
    selectedPinyin, \* the option chosen: <<>> for null, or <<option>>
    selectedChoice,
    generating,     \* the run of generateMultipleChoiceOptions in progress
    dashCharacters, \* progress-dashboard.tsx state
    dashProgress,
    dashHistory

serverVars == <<usersFile, userDirs, charFile, progFile, histFile, submitted>>
storeVars  == <<charFile, progFile, histFile, submitted>>
clientVars == <<jar, appUser, currentPage>>
choiceVars == <<pinyinOptions, multipleChoiceOptions, selectedPinyin, selectedChoice>>
quizVars   == <<allCharacters, quizType, characterCount, quizCharacters,
               currentIndex, feedback, sessionStats, quizComplete, timer,
               pinyinOptions, multipleChoiceOptions, selectedPinyin, selectedChoice,
               generating>>
dashVars   == <<dashCharacters, dashProgress, dashHistory>>
vars == <<now, usersFile, userDirs, charFile, progFile, histFile, submitted, inflight, jar,
          appUser,
          currentPage, last, allCharacters, quizType, characterCount, quizCharacters,
          currentIndex, feedback, sessionStats, quizComplete, timer,
          pinyinOptions, multipleChoiceOptions, selectedPinyin, selectedChoice, generating,
          dashCharacters, dashProgress, dashHistory>>

----------------------------------------------------------------------------
(* Bounds of the model *)

MaxClock == 1
MaxChars == 3
MaxBatch == 2
MaxCount == 2
MaxIncrement == 1
MaxHistory == 2
MaxAppends == 52
MaxStale == 1
MaxPool == 3
MaxQuizzes == 1
MaxReads == 12
MaxInflight == 2
MaxSessions == 2
MergePool == 2
MaxSelect == 6
OptionPool == 6
MaxAsked == 2
MaxDebt == 1

----------------------------------------------------------------------------
(* Strings *)

None == <<>>

Truthy(s) == s /= <<>>

Or(s, t) == IF Truthy(s) THEN s ELSE t

Min(a, b) == IF a <= b THEN a ELSE b

RECURSIVE Rep(_, _)
Rep(c, n) == IF n = 0 THEN <<>> ELSE <<c>> \o Rep(c, n - 1)

RECURSIVE TrimLeft(_)
TrimLeft(s) == IF s /= <<>> /\ Head(s) = " " THEN TrimLeft(Tail(s)) ELSE s

RECURSIVE TrimRight(_)
TrimRight(s) ==
    IF s /= <<>> /\ s[Len(s)] = " " THEN TrimRight(SubSeq(s, 1, Len(s) - 1)) ELSE s

\* String.prototype.trim
Trim(s) == TrimRight(TrimLeft(s))

\* String.prototype.split(","): the fields between the commas, never empty
RECURSIVE SplitComma(_)
SplitComma(s) ==
    IF \E i \in 1..Len(s) : s[i] = ","
    THEN LET i == CHOOSE k \in 1..Len(s) : s[k] = "," /\ \A j \in 1..(k - 1) : s[j] /= ","
         IN  <<SubSeq(s, 1, i - 1)>> \o SplitComma(SubSeq(s, i + 1, Len(s)))
    ELSE <<s>>

\* Array.prototype.join(",") / a template literal `${a},${b},...`
RECURSIVE JoinComma(_)
JoinComma(fields) ==
    IF fields = <<>> THEN <<>>
    ELSE IF Len(fields) = 1 THEN fields[1]
    ELSE fields[1] \o <<",">> \o JoinComma(Tail(fields))

\* parts[i] of a JavaScript array: undefined past the end
At(parts, i) == IF i <= Len(parts) THEN parts[i] ELSE None

Range(s) == {s[i] : i \in 1..Len(s)}

Digit == {"0", "1", "2", "3", "4", "5", "6", "7", "8", "9"}

\* Math.round(num / den * 100) for num, den >= 0, den > 0: halves round up
RoundPercent(num, den) == (200 * num + den) \div (2 * den)

\* Number.prototype.toString: the decimal digits of an integer, behind its
\* sign if it is negative
RECURSIVE Digits(_)
Digits(n) ==
    IF n < 0 THEN <<"-">> \o Digits(0 - n)
    ELSE IF n < 10 THEN <<ToString(n)>>
    ELSE Digits(n \div 10) \o <<ToString(n % 10)>>

\* parseInt(s, 10) of a string without leading digits
NaN == "NaN"

DigitValue(d) ==
    CASE d = "0" -> 0 [] d = "1" -> 1 [] d = "2" -> 2 [] d = "3" -> 3 [] d = "4" -> 4
      [] d = "5" -> 5 [] d = "6" -> 6 [] d = "7" -> 7 [] d = "8" -> 8 [] d = "9" -> 9

RECURSIVE ParseDigits(_, _)
ParseDigits(s, n) ==
    IF s /= <<>> /\ Head(s) \in Digit
    THEN ParseDigits(Tail(s), 10 * n + DigitValue(Head(s)))
    ELSE n

\* parseInt(s, 10): blanks are skipped, then a sign and the leading digits
\* are read, whatever follows them
ParseInt(s) ==
    LET t == TrimLeft(s)
    IN  IF t /= <<>> /\ Head(t) \in Digit THEN ParseDigits(t, 0)
        ELSE IF Len(t) > 1 /\ Head(t) = "-" /\ t[2] \in Digit THEN 0 - ParseDigits(Tail(t), 0)
        ELSE NaN

----------------------------------------------------------------------------
(* Ordered maps: a JavaScript Map, or an object with non-index keys, is a   *)
(* sequence of <<key, value>> pairs with distinct keys, in insertion order. *)

MapHas(m, k) == \E i \in 1..Len(m) : m[i][1] = k

MapGet(m, k) == m[CHOOSE i \in 1..Len(m) : m[i][1] = k][2]

MapSet(m, k, v) ==
    IF MapHas(m, k)
    THEN [i \in 1..Len(m) |-> IF m[i][1] = k THEN <<k, v>> ELSE m[i]]
    ELSE Append(m, <<k, v>>)

MapKeys(m) == {m[i][1] : i \in 1..Len(m)}

NoFile == [exists |-> FALSE, lines |-> <<>>]

File(lines) == [exists |-> TRUE, lines |-> lines]

----------------------------------------------------------------------------
(* app/api/auth/route.ts *)

AB == <<"a", "b">>
CD == <<"c", "d">>

Letters == {"a", "b", "c", "d", "e", "f", "g", "h", "i", "j", "k", "l", "m",
            "n", "o", "p", "q", "r", "s", "t", "u", "v", "w", "x", "y", "z",
            "A", "B", "C", "D", "E", "F", "G", "H", "I", "J", "K", "L", "M",
            "N", "O", "P", "Q", "R", "S", "T", "U", "V", "W", "X", "Y", "Z"}

\* /^[a-zA-Z0-9_]+$/.test(username)
UsernamePattern(username) ==
    /\ Len(username) >= 1
    /\ \A i \in 1..Len(username) : username[i] \in Letters \cup Digit \cup {"_"}

MinUsernameLength == 2
MaxUsernameLength == 20
MinPasswordLength == 4

\* crypto.createHash("sha256").update(password).digest("hex"): a digest that
\* differs from the password and is the same for the same password only
hashPassword(password) == <<"#">> \o password

\* parseUsersCSV, the loop over the lines after the header
RECURSIVE parseUsersLines(_, _)
parseUsersLines(lines, users) ==
    IF lines = <<>> THEN users
    ELSE LET parts        == SplitComma(Head(lines))
             username     == At(parts, 1)
             passwordHash == At(parts, 2)
         IN  parseUsersLines(Tail(lines),
                             IF /\ Truthy(Trim(Head(lines)))
                                /\ Truthy(username) /\ Truthy(passwordHash)
                             THEN MapSet(users, Trim(username), Trim(passwordHash))
                             ELSE users)

parseUsersCSV(lines) == parseUsersLines(lines, <<>>)

\* saveUsersCSV: one line `${u},${p}` for each user
saveUsersCSV(users) ==
    File([i \in 1..Len(users) |-> JoinComma(<<users[i][1], users[i][2]>>)])

loadUsers == IF ~usersFile.exists THEN <<>> ELSE parseUsersCSV(usersFile.lines)

ensureUserDir(username) == userDirs \cup {username}

\* ValidationError without the check of the password's length
ValidationErrorAnyPassword(username, password) ==
    IF ~Truthy(username) \/ ~Truthy(password)
        THEN "Username and password are required"
    ELSE IF Len(username) < MinUsernameLength \/ Len(username) > MaxUsernameLength
        THEN "Username must be 2-20 characters"
    ELSE IF ~UsernamePattern(username)
        THEN "Username can only contain letters, numbers, and underscores"
    ELSE ""

\* The first validation that fails, or "" when the request passes them all
ValidationError(username, password) ==
    IF ~Truthy(username) \/ ~Truthy(password)
        THEN "Username and password are required"
    ELSE IF Len(username) < MinUsernameLength \/ Len(username) > MaxUsernameLength
        THEN "Username must be 2-20 characters"
    ELSE IF Len(password) < MinPasswordLength
        THEN "Password must be at least 4 characters"
    ELSE IF ~UsernamePattern(username)
        THEN "Username can only contain letters, numbers, and underscores"
    ELSE ""

AuthReply(status, error, username, cookie, files, dirs) ==
    [status |-> status, error |-> error, username |-> username,
     cookie |-> cookie, usersFile |-> files, userDirs |-> dirs]

\* AuthPOST saving the password of a registration that it refuses
AuthPOSTReplacing(action, username, password) ==
    LET users        == loadUsers
        passwordHash == hashPassword(password)
        invalid      == ValidationError(username, password)
    IN  IF invalid /= ""
            THEN AuthReply(400, invalid, None, "keep", usersFile, userDirs)
        ELSE IF action = "register"
            THEN IF MapHas(users, username)
                 THEN AuthReply(400, "Username already exists", None, "keep",
                                saveUsersCSV(MapSet(users, username, passwordHash)),
                                userDirs)
                 ELSE AuthReply(200, "", username, "set",
                                saveUsersCSV(MapSet(users, username, passwordHash)),
                                ensureUserDir(username))
        ELSE IF action = "login"
            THEN IF ~MapHas(users, username) \/ MapGet(users, username) /= passwordHash
                 THEN AuthReply(401, "Invalid username or password", None, "keep",
                                usersFile, userDirs)
                 ELSE AuthReply(200, "", username, "set", usersFile,
                                ensureUserDir(username))
        ELSE IF action = "logout"
            THEN AuthReply(200, "", None, "delete", usersFile, userDirs)
        ELSE AuthReply(400, "Invalid action", None, "keep", usersFile, userDirs)

\* POST /api/auth.  cookie: "set" (Set-Cookie user=<username>), "delete"
\* (the user cookie is deleted) or "keep" (the response names no cookie).
AuthPOST(action, username, password) ==
    LET users        == loadUsers
        passwordHash == hashPassword(password)
        invalid      == ValidationError(username, password)
    IN  IF invalid /= ""
            THEN AuthReply(400, invalid, None, "keep", usersFile, userDirs)
        ELSE IF action = "register"
            THEN IF MapHas(users, username)
                 THEN AuthReply(400, "Username already exists", None, "keep",
                                usersFile, userDirs)
                 ELSE AuthReply(200, "", username, "set",
                                saveUsersCSV(MapSet(users, username, passwordHash)),
                                ensureUserDir(username))
        ELSE IF action = "login"
            THEN IF ~MapHas(users, username) \/ MapGet(users, username) /= passwordHash
                 THEN AuthReply(401, "Invalid username or password", None, "keep",
                                usersFile, userDirs)
                 ELSE AuthReply(200, "", username, "set", usersFile,
                                ensureUserDir(username))
        ELSE IF action = "logout"
            THEN AuthReply(200, "", None, "delete", usersFile, userDirs)
        ELSE AuthReply(400, "Invalid action", None, "keep", usersFile, userDirs)

\* The JSON body of the response
AuthBody(reply) == [error |-> reply.error, username |-> reply.username]

\* The browser's handling of the response's cookies
Cookies(reply) ==
    CASE reply.cookie = "set"    -> [jar EXCEPT !.user = reply.username]
      [] reply.cookie = "delete" -> [jar EXCEPT !.user = None]
      [] OTHER                   -> jar

\* AuthGET without the look-up in users.csv
AuthGETTrusting(cookies) == [user |-> cookies.user, cookie |-> "keep"]

\* GET /api/auth: the user reported, and whether the cookie is deleted
AuthGET(cookies) ==
    LET username == cookies.user
    IN  IF ~Truthy(username) THEN [user |-> None, cookie |-> "keep"]
        ELSE IF ~MapHas(loadUsers, username) THEN [user |-> None, cookie |-> "delete"]
        ELSE [user |-> username, cookie |-> "keep"]

\* One request as `last` records it: the route and method, the request's
\* input, the cookies sent, and the status and body of the response
Request(op, req, cookies, status, body) ==
    [op |-> op, req |-> req, cookies |-> cookies, status |-> status, body |-> body]

----------------------------------------------------------------------------
(* The session cookie as each data route reads it *)

\* getUsername falling back to a default user
getUsernameOrDefault(cookies) == Or(cookies.user, AB)

\* characters/route.ts and progress/route.ts: cookies["user"] || null
getUsername(cookies) == Or(cookies.user, None)

\* quiz-history/route.ts: cookies.username || null
getUsernameHistory(cookies) == Or(cookies.username, None)

\* path.join(DATA_DIR, "users", username, <file>): the key of the file in the
\* per-store maps charFile, progFile and histFile
getCharactersFile(username) == username

\* getProgressFile naming one file for every user
getProgressFileShared(username) == AB

getProgressFile(username) == username

getQuizHistoryFile(username) == username

Unauthenticated == [status |-> 401, body |-> "Not authenticated"]

----------------------------------------------------------------------------
(* app/api/characters/route.ts *)

Character(id, character, pinyin, meaning, phrase) ==
    [id |-> id, character |-> character, pinyin |-> pinyin,
     meaning |-> meaning, phrase |-> phrase]

\* parseCSV, the body of the loop: the character of line i, of fields
\* `parts`, read at time t
parseCharacterLine(line, parts, i, t) ==
    IF Truthy(Trim(line)) /\ Len(parts) >= 3
    THEN <<Character(Or(Trim(At(parts, 1)), Digits(t) \o Digits(i)),
                     Or(Trim(At(parts, 2)), <<>>),
                     Or(Trim(At(parts, 3)), <<>>),
                     Or(Trim(At(parts, 4)), <<>>),
                     Or(Trim(At(parts, 5)), <<>>))>>
    ELSE <<>>

\* parseCSV: the lines from line i on (the header is line 0), read at time t
RECURSIVE parseCharacterLines(_, _, _)
parseCharacterLines(lines, i, t) ==
    IF i > Len(lines) THEN <<>>
    ELSE parseCharacterLine(lines[i], SplitComma(lines[i]), i, t)
         \o parseCharacterLines(lines, i + 1, t)

parseCharactersCSV(lines, t) == parseCharacterLines(lines, 1, t)

\* toCSV writing no phrase
toCharactersCSVNoPhrase(characters) ==
    [i \in 1..Len(characters) |->
        JoinComma(<<characters[i].id, characters[i].character, characters[i].pinyin,
                    characters[i].meaning, <<>>>>)]

toCharactersCSV(characters) ==
    [i \in 1..Len(characters) |->
        JoinComma(<<characters[i].id, characters[i].character, characters[i].pinyin,
                    characters[i].meaning, Or(characters[i].phrase, <<>>)>>)]

readCharacters(file, t) ==
    IF file.exists THEN parseCharactersCSV(file.lines, t) ELSE <<>>

\* uniqueNewCharacters comparing ids, not glyphs
uniqueNewCharactersById(existingCharacters, newCharacters) ==
    LET existingIdSet == {existingCharacters[i].id : i \in 1..Len(existingCharacters)}
    IN  SelectSeq(newCharacters, LAMBDA c : c.id \notin existingIdSet)

\* newCharacters.filter(c => !existingCharSet.has(c.character))
uniqueNewCharacters(existingCharacters, newCharacters) ==
    LET existingCharSet == {existingCharacters[i].character :
                                i \in 1..Len(existingCharacters)}
    IN  SelectSeq(newCharacters, LAMBDA c : c.character \notin existingCharSet)

\* GET /api/characters
CharactersGET(cookies, t) ==
    LET username == getUsername(cookies)
    IN  IF ~Truthy(username) THEN Unauthenticated
        ELSE [status |-> 200,
              body   |-> readCharacters(charFile[getCharactersFile(username)], t)]

\* POST /api/characters: the response and the file written
CharactersPOST(cookies, newCharacters, t) ==
    LET username == getUsername(cookies)
        existingCharacters == readCharacters(charFile[getCharactersFile(username)], t)
        unique == uniqueNewCharacters(existingCharacters, newCharacters)
        allChars == existingCharacters \o unique
    IN  IF ~Truthy(username) THEN Unauthenticated
        ELSE [status |-> 200,
              body   |-> [count   |-> Len(allChars),
                          added   |-> Len(unique),
                          skipped |-> Len(newCharacters) - Len(unique)],
              file   |-> File(toCharactersCSV(allChars))]

\* CharactersDELETE taking every id for "all"
CharactersDELETEAll(cookies, id, t) ==
    IF ~Truthy(getUsername(cookies)) THEN Unauthenticated
    ELSE IF Truthy(id) THEN [status |-> 200, body |-> "success", file |-> File(<<>>)]
    ELSE [status |-> 400, body |-> "No id provided"]

\* DELETE /api/characters?id=<id>
CharactersDELETE(cookies, id, t) ==
    LET username == getUsername(cookies)
        file == charFile[getCharactersFile(username)]
    IN  IF ~Truthy(username) THEN Unauthenticated
        ELSE IF id = <<"a", "l", "l">>
            THEN [status |-> 200, body |-> "success", file |-> File(<<>>)]
        ELSE IF Truthy(id)
            THEN [status |-> 200, body |-> "success",
                  file   |-> IF file.exists
                             THEN File(toCharactersCSV(
                                     SelectSeq(parseCharactersCSV(file.lines, t),
                                               LAMBDA c : c.id /= id)))
                             ELSE file]
        ELSE [status |-> 400, body |-> "No id provided"]

----------------------------------------------------------------------------
(* app/api/progress/route.ts.  A progress object is an ordered map from    *)
(* characterId to [correct, incorrect].                                    *)

Stats(correct, incorrect) == [correct |-> correct, incorrect |-> incorrect]

\* parseCSV, the loop over the lines after the header
RECURSIVE parseProgressLines(_, _)
parseProgressLines(lines, progress) ==
    IF lines = <<>> THEN progress
    ELSE LET parts       == SplitComma(Head(lines))
             characterId == At(parts, 1)
             correct     == At(parts, 2)
             incorrect   == At(parts, 3)
         IN  parseProgressLines(Tail(lines),
                                IF Truthy(Trim(Head(lines))) /\ Truthy(characterId)
                                THEN MapSet(progress, Trim(characterId),
                                            Stats(ParseInt(Or(Trim(correct), Digits(0))),
                                                  ParseInt(Or(Trim(incorrect), Digits(0)))))
                                ELSE progress)

parseProgressCSV(lines) == parseProgressLines(lines, <<>>)

\* toCSV: one line `${id},${stats.correct},${stats.incorrect}` for each entry
toProgressCSV(progress) ==
    [i \in 1..Len(progress) |->
        JoinComma(<<progress[i][1], Digits(progress[i][2].correct),
                    Digits(progress[i][2].incorrect)>>)]

readProgress(file) == IF file.exists THEN parseProgressCSV(file.lines) ELSE <<>>

\* mergeProgress replacing the counts of a stored characterId
RECURSIVE mergeProgressOverwrite(_, _)
mergeProgressOverwrite(existingProgress, newProgress) ==
    IF newProgress = <<>> THEN existingProgress
    ELSE mergeProgressOverwrite(
             MapSet(existingProgress, Head(newProgress)[1], Head(newProgress)[2]),
             Tail(newProgress))

\* mergeProgress that keeps the submitted counts alone
mergeProgressReplace(existingProgress, newProgress) == newProgress

\* Merge progress - add to existing counts
RECURSIVE mergeProgress(_, _)
mergeProgress(existingProgress, newProgress) ==
    IF newProgress = <<>> THEN existingProgress
    ELSE LET id    == Head(newProgress)[1]
             stats == Head(newProgress)[2]
         IN  mergeProgress(
                 IF MapHas(existingProgress, id)
                 THEN MapSet(existingProgress, id,
                             Stats(MapGet(existingProgress, id).correct + stats.correct,
                                   MapGet(existingProgress, id).incorrect + stats.incorrect))
                 ELSE MapSet(existingProgress, id, stats),
                 Tail(newProgress))

\* GET /api/progress
ProgressGET(cookies) ==
    LET username == getUsername(cookies)
    IN  IF ~Truthy(username) THEN Unauthenticated
        ELSE [status |-> 200, body |-> readProgress(progFile[getProgressFile(username)])]

\* POST /api/progress
ProgressPOST(cookies, newProgress) ==
    LET username == getUsername(cookies)
        existingProgress == readProgress(progFile[getProgressFile(username)])
    IN  IF ~Truthy(username) THEN Unauthenticated
        ELSE [status |-> 200, body |-> "success",
              file   |-> File(toProgressCSV(mergeProgress(existingProgress, newProgress)))]

\* DELETE /api/progress
ProgressDELETE(cookies) ==
    LET username == getUsername(cookies)
    IN  IF ~Truthy(username) THEN Unauthenticated
        ELSE [status |-> 200, body |-> "success", file |-> File(<<>>)]

----------------------------------------------------------------------------
(* app/api/quiz-history/route.ts *)

HistoryLimit == 50
DefaultLimit == 10

QuizSession(timestamp, type, totalQuestions, correctAnswers, accuracy) ==
    [timestamp |-> timestamp, quizType |-> type, totalQuestions |-> totalQuestions,
     correctAnswers |-> correctAnswers, accuracy |-> accuracy]

\* parseCSV, the body of the loop: the session of a line of fields `parts`.
\* The accuracy the application stores is the integer Math.round returns,
\* on which parseFloat and parseInt agree.
parseHistoryLine(line, parts) ==
    IF Truthy(Trim(line)) /\ Truthy(At(parts, 1))
    THEN <<QuizSession(ParseInt(Trim(At(parts, 1))), Trim(At(parts, 2)),
                       ParseInt(Trim(At(parts, 3))), ParseInt(Trim(At(parts, 4))),
                       ParseInt(Trim(At(parts, 5))))>>
    ELSE <<>>

RECURSIVE parseHistoryLines(_, _)
parseHistoryLines(lines, i) ==
    IF i > Len(lines) THEN <<>>
    ELSE parseHistoryLine(lines[i], SplitComma(lines[i])) \o parseHistoryLines(lines, i + 1)

parseHistoryCSV(lines) == parseHistoryLines(lines, 1)

\* toCSV: one line of the five fields for each session
toHistoryCSV(history) ==
    [i \in 1..Len(history) |->
        JoinComma(<<Digits(history[i].timestamp), history[i].quizType,
                    Digits(history[i].totalQuestions), Digits(history[i].correctAnswers),
                    Digits(history[i].accuracy)>>)]

readHistory(file) == IF file.exists THEN parseHistoryCSV(file.lines) ELSE <<>>

\* Insert session s before the first later-placed session it must precede:
\* sessions with equal timestamps keep their order (the sort is stable)
RECURSIVE insertByTimestamp(_, _)
insertByTimestamp(sorted, s) ==
    IF sorted = <<>> THEN <<s>>
    ELSE IF Head(sorted).timestamp >= s.timestamp
         THEN <<Head(sorted)>> \o insertByTimestamp(Tail(sorted), s)
         ELSE <<s>> \o sorted

\* history.sort((a, b) => b.timestamp - a.timestamp)
RECURSIVE sortByTimestampDesc(_)
sortByTimestampDesc(history) ==
    IF history = <<>> THEN <<>>
    ELSE insertByTimestamp(
             sortByTimestampDesc(SubSeq(history, 1, Len(history) - 1)),
             history[Len(history)])

\* Array.prototype.slice(0, n) for n >= 0
Slice(s, n) == SubSeq(s, 1, Min(n, Len(s)))

\* keepLast without the sort: the first 50 sessions of the file
keepFirst(history) ==
    IF Len(history) > HistoryLimit THEN Slice(history, HistoryLimit) ELSE history

\* Keep only last 50 sessions
keepLast(history) ==
    IF Len(history) > HistoryLimit
    THEN Slice(sortByTimestampDesc(history), HistoryLimit)
    ELSE history

\* parseInt(url.searchParams.get("limit") || "10", 10): the limit of a
\* request whose query holds limit=<param>, or no limit (None)
limitOf(param) == ParseInt(Or(param, Digits(DefaultLimit)))

\* HistoryGET without the sort: the first sessions of the file
HistoryGETUnsorted(cookies, limit) ==
    LET username == getUsernameHistory(cookies)
    IN  IF ~Truthy(username) THEN Unauthenticated
        ELSE [status |-> 200,
              body   |-> Slice(readHistory(histFile[getQuizHistoryFile(username)]), limit)]

\* GET /api/quiz-history?limit=<limit>
HistoryGET(cookies, limit) ==
    LET username == getUsernameHistory(cookies)
    IN  IF ~Truthy(username) THEN Unauthenticated
        ELSE [status |-> 200,
              body   |-> Slice(sortByTimestampDesc(
                                  readHistory(histFile[getQuizHistoryFile(username)])),
                               limit)]

\* POST /api/quiz-history
HistoryPOST(cookies, newSession) ==
    LET username == getUsernameHistory(cookies)
        existingHistory == readHistory(histFile[getQuizHistoryFile(username)])
    IN  IF ~Truthy(username) THEN Unauthenticated
        ELSE [status |-> 200, body |-> "success",
              file   |-> File(toHistoryCSV(keepLast(Append(existingHistory, newSession))))]

----------------------------------------------------------------------------
(* Initial state: nothing on disk, nobody logged in.  The browser may hold  *)
(* a cookie named `username` that this application never sets (cookies are  *)
(* shared by every application served from the same host).                  *)

Usernames == {AB, CD}

DirNames == Usernames

NoCharacters == <<>>

\* null, for a state that otherwise holds a keyword
Null == "null"

\* null, for characterCount, which otherwise holds one of countOptions
NoCount == 0

\* useEffect(..., [feedback]): the timeout of the auto-advance effect, set
\* after a render with feedback; it calls the handleNext of that render, with
\* the state that render holds
Timeout(state, type, characters, index, stats) ==
    [state |-> state, quizType |-> type, quizCharacters |-> characters,
     currentIndex |-> index, sessionStats |-> stats]

\* No timeout is set, or the one set has fired
NoTimeout == Timeout("none", Null, <<>>, 0, <<>>)

\* The timeout set has been cancelled
Cleared == Timeout("cleared", Null, <<>>, 0, <<>>)

\* null, for selectedPinyin and selectedChoice
NoSelection == <<>>

\* A call of generateMultipleChoiceOptions from the count card for `count`,
\* with the question set `selected` and the local `options` of its loop
Generating(running, count, selected, options) ==
    [running |-> running, count |-> count, selected |-> selected, options |-> options]

\* No call is in progress
NotGenerating == Generating(FALSE, NoCount, <<>>, <<>>)

QuizIdle ==
    /\ quizType = Null
    /\ characterCount = NoCount
    /\ quizCharacters = <<>>
    /\ currentIndex = 0
    /\ feedback = Null
    /\ sessionStats = <<>>
    /\ quizComplete = FALSE
    /\ timer = NoTimeout
    /\ selectedPinyin = NoSelection
    /\ selectedChoice = NoSelection
    /\ generating = NotGenerating

\* useState([]) of pinyinOptions and multipleChoiceOptions
NoOptions == pinyinOptions = <<>> /\ multipleChoiceOptions = <<>>

QuizInit == allCharacters = NoCharacters /\ QuizIdle /\ NoOptions

DashInit ==
    /\ dashCharacters = <<>>
    /\ dashProgress = <<>>
    /\ dashHistory = <<>>

Init ==
    /\ now = 0
    /\ usersFile = NoFile
    /\ userDirs = {}
    /\ charFile = [u \in DirNames |-> NoFile]
    /\ progFile = [u \in DirNames |-> NoFile]
    /\ histFile = [u \in DirNames |-> NoFile]
    /\ submitted = [u \in DirNames |-> <<>>]
    /\ inflight = <<>>
    /\ jar \in [user : {None}, username : {None} \cup Usernames]
    /\ appUser = None
    /\ currentPage = "dashboard"
    /\ last = <<>>
    /\ QuizInit
    /\ DashInit

----------------------------------------------------------------------------
(* The clock *)

Tick ==
    /\ now < MaxClock
    /\ now' = now + 1
    /\ last' = <<>>
    /\ UNCHANGED <<inflight, serverVars, clientVars, quizVars, dashVars>>

----------------------------------------------------------------------------
(* Requests sent to the routes with the browser's cookies, outside the      *)
(* application's own pages                                                  *)

ApiAuth(action, username, password) ==
    \E reply \in {AuthPOST(action, username, password)} :
        /\ usersFile' = reply.usersFile
        /\ userDirs' = reply.userDirs
        /\ jar' = Cookies(reply)
        /\ last' = <<Request("POST /api/auth",
                             [action |-> action, username |-> username,
                              password |-> password],
                             jar, reply.status, AuthBody(reply))>>
        /\ UNCHANGED <<now, inflight, storeVars, appUser, currentPage, quizVars, dashVars>>

\* ensureUserDir as the data routes call it, after the authentication check
DataDirs(username) == IF Truthy(username) THEN ensureUserDir(username) ELSE userDirs

ApiCharactersGET ==
    \E reply \in {CharactersGET(jar, now)} :
        /\ userDirs' = DataDirs(getUsername(jar))
        /\ last' = <<Request("GET /api/characters", None, jar, reply.status, reply.body)>>
        /\ UNCHANGED <<now, inflight, usersFile, storeVars, clientVars, quizVars, dashVars>>

ApiCharactersPOST(newCharacters) ==
    \E reply \in {CharactersPOST(jar, newCharacters, now)} :
        /\ reply.status = 200 => Len(reply.file.lines) <= MaxChars
        /\ userDirs' = DataDirs(getUsername(jar))
        /\ charFile' = IF reply.status = 200
                       THEN [charFile EXCEPT ![getCharactersFile(getUsername(jar))] = reply.file]
                       ELSE charFile
        /\ last' = <<Request("POST /api/characters", newCharacters, jar,
                             reply.status, reply.body)>>
        /\ UNCHANGED <<now, inflight, usersFile, progFile, histFile, submitted, clientVars, quizVars, dashVars>>

ApiCharactersDELETE(id) ==
    \E reply \in {CharactersDELETE(jar, id, now)} :
        /\ userDirs' = DataDirs(getUsername(jar))
        /\ charFile' = IF reply.status = 200
                       THEN [charFile EXCEPT ![getCharactersFile(getUsername(jar))] = reply.file]
                       ELSE charFile
        /\ last' = <<Request("DELETE /api/characters", id, jar, reply.status, reply.body)>>
        /\ UNCHANGED <<now, inflight, usersFile, progFile, histFile, submitted, clientVars, quizVars, dashVars>>

ApiProgressGET ==
    \E reply \in {ProgressGET(jar)} :
        /\ userDirs' = DataDirs(getUsername(jar))
        /\ last' = <<Request("GET /api/progress", None, jar, reply.status, reply.body)>>
        /\ UNCHANGED <<now, inflight, usersFile, storeVars, clientVars, quizVars, dashVars>>

\* The record of what was submitted: a function from the characterIds
\* submitted since the last clear to the sums of their increments
Submit1(sums, newProgress) ==
    [id \in DOMAIN sums \cup MapKeys(newProgress) |->
        LET before == IF id \in DOMAIN sums THEN sums[id] ELSE Stats(0, 0)
            added  == IF MapHas(newProgress, id) THEN MapGet(newProgress, id)
                      ELSE Stats(0, 0)
        IN  Stats(before.correct + added.correct, before.incorrect + added.incorrect)]

\* The counts of a progress.csv stay within the model's bound
CountsBounded(file) ==
    \A progress \in {readProgress(file)} :
        \A i \in 1..Len(progress) :
            progress[i][2].correct <= MaxCount /\ progress[i][2].incorrect <= MaxCount

\* The sums of what was submitted stay within the model's bound
SumsBounded(sums) ==
    \A id \in DOMAIN sums : sums[id].correct <= MaxCount /\ sums[id].incorrect <= MaxCount

ApiProgressPOST(newProgress) ==
    \E reply \in {ProgressPOST(jar, newProgress)} :
        /\ reply.status = 200 =>
                /\ CountsBounded(reply.file)
                /\ SumsBounded(Submit1(submitted[getUsername(jar)], newProgress))
        /\ userDirs' = DataDirs(getUsername(jar))
        /\ progFile' = IF reply.status = 200
                       THEN [progFile EXCEPT ![getProgressFile(getUsername(jar))] = reply.file]
                       ELSE progFile
        /\ submitted' = IF reply.status = 200
                        THEN [submitted EXCEPT ![getUsername(jar)] = Submit1(@, newProgress)]
                        ELSE submitted
        /\ last' = <<Request("POST /api/progress", newProgress, jar,
                             reply.status, reply.body)>>
        /\ UNCHANGED <<now, inflight, usersFile, charFile, histFile, clientVars, quizVars, dashVars>>

ApiProgressDELETE ==
    \E reply \in {ProgressDELETE(jar)} :
        /\ userDirs' = DataDirs(getUsername(jar))
        /\ progFile' = IF reply.status = 200
                       THEN [progFile EXCEPT ![getProgressFile(getUsername(jar))] = reply.file]
                       ELSE progFile
        /\ submitted' = IF reply.status = 200
                        THEN [submitted EXCEPT ![getUsername(jar)] = <<>>]
                        ELSE submitted
        /\ last' = <<Request("DELETE /api/progress", None, jar, reply.status, reply.body)>>
        /\ UNCHANGED <<now, inflight, usersFile, charFile, histFile, clientVars, quizVars, dashVars>>

ApiHistoryGET(limit) ==
    \E reply \in {HistoryGET(jar, limit)} :
        /\ userDirs' = DataDirs(getUsernameHistory(jar))
        /\ last' = <<Request("GET /api/quiz-history", limit, jar, reply.status, reply.body)>>
        /\ UNCHANGED <<now, inflight, usersFile, storeVars, clientVars, quizVars, dashVars>>

\* GET /api/quiz-history with the query parameter as the client writes it
ApiHistoryGETQuery(param) ==
    \E reply \in {HistoryGET(jar, limitOf(param))} :
        /\ userDirs' = DataDirs(getUsernameHistory(jar))
        /\ last' = <<Request("GET /api/quiz-history", param, jar, reply.status, reply.body)>>
        /\ UNCHANGED <<now, inflight, usersFile, storeVars, clientVars, quizVars, dashVars>>

ApiHistoryPOST(newSession) ==
    \E reply \in {HistoryPOST(jar, newSession)} :
        /\ userDirs' = DataDirs(getUsernameHistory(jar))
        /\ histFile' = IF reply.status = 200
                       THEN [histFile EXCEPT ![getQuizHistoryFile(getUsernameHistory(jar))] =
                                 reply.file]
                       ELSE histFile
        /\ last' = <<Request("POST /api/quiz-history", newSession, jar,
                             reply.status, reply.body)>>
        /\ UNCHANGED <<now, inflight, usersFile, charFile, progFile, submitted, clientVars, quizVars, dashVars>>

----------------------------------------------------------------------------
(* components/progress-dashboard.tsx *)

RECURSIVE SumCorrect(_)
SumCorrect(progress) ==
    IF progress = <<>> THEN 0 ELSE Head(progress)[2].correct + SumCorrect(Tail(progress))

RECURSIVE SumAttempts(_)
SumAttempts(progress) ==
    IF progress = <<>> THEN 0
    ELSE Head(progress)[2].correct + Head(progress)[2].incorrect
         + SumAttempts(Tail(progress))

\* overallStats.overallAccuracy, over Object.values(progress)
overallAccuracy(progress) ==
    IF SumAttempts(progress) > 0
    THEN RoundPercent(SumCorrect(progress), SumAttempts(progress))
    ELSE 0

\* progress[char.id] || { correct: 0, incorrect: 0 }
charProgress(progress, id) ==
    IF MapHas(progress, id) THEN MapGet(progress, id) ELSE Stats(0, 0)

\* stats[i].accuracy
accuracyOf(stat) ==
    IF stat.correct + stat.incorrect > 0
    THEN RoundPercent(stat.correct, stat.correct + stat.incorrect)
    ELSE 0

DashboardLimit == 3

\* The requests of fetchData, in the order Promise.all lists them
DashboardRequests(cookies) ==
    <<Request("GET /api/characters", None, cookies,
              CharactersGET(cookies, now).status, CharactersGET(cookies, now).body),
      Request("GET /api/progress", None, cookies,
              ProgressGET(cookies).status, ProgressGET(cookies).body),
      Request("GET /api/quiz-history", DashboardLimit, cookies,
              HistoryGET(cookies, DashboardLimit).status,
              HistoryGET(cookies, DashboardLimit).body)>>

OkBody(request, otherwise) == IF request.status = 200 THEN request.body ELSE otherwise

\* ProgressDashboard mounts: useEffect -> fetchData
DashboardMount(cookies) ==
    LET requests == DashboardRequests(cookies)
    IN  /\ dashCharacters' = OkBody(requests[1], <<>>)
        /\ dashProgress' = OkBody(requests[2], <<>>)
        /\ dashHistory' = OkBody(requests[3], <<>>)

----------------------------------------------------------------------------
(* app/page.tsx: the page shown mounts, the others hold their initial state *)

\* A timeout is set and has neither fired nor been cancelled
Pending(t) == t.state = "pending"

\* An effect cleanup that leaves the timeout alone
keepTimeout(t) == t

\* The cleanup of the auto-advance effect: () => clearTimeout(timer)
clearTimeout(t) == IF Pending(t) THEN Cleared ELSE t

\* The setters of "Try Another Quiz", which leave the options of the last
\* question; the effect of a feedback that is set to null is cleaned up
SessionReset ==
    /\ quizType' = Null
    /\ characterCount' = NoCount
    /\ quizCharacters' = <<>>
    /\ currentIndex' = 0
    /\ feedback' = Null
    /\ sessionStats' = <<>>
    /\ quizComplete' = FALSE
    /\ timer' = clearTimeout(timer)
    /\ selectedPinyin' = NoSelection
    /\ selectedChoice' = NoSelection

\* The state of a new QuizMode; the effects of the one that unmounts are
\* cleaned up
QuizReset ==
    /\ SessionReset
    /\ pinyinOptions' = <<>>
    /\ multipleChoiceOptions' = <<>>
    /\ generating' = NotGenerating

DashReset ==
    /\ dashCharacters' = <<>>
    /\ dashProgress' = <<>>
    /\ dashHistory' = <<>>

CharactersRequest(cookies) ==
    Request("GET /api/characters", None, cookies,
            CharactersGET(cookies, now).status, CharactersGET(cookies, now).body)

\* The requests the component of `page` sends when it mounts
MountRequests(page, cookies) ==
    IF page = "dashboard" THEN DashboardRequests(cookies)
    ELSE <<CharactersRequest(cookies)>>

\* The directories the mount requests create
MountDirs(page, cookies, dirs) ==
    dirs \cup (IF Truthy(getUsername(cookies)) THEN {getUsername(cookies)} ELSE {})
         \cup (IF page = "dashboard" /\ Truthy(getUsernameHistory(cookies))
               THEN {getUsernameHistory(cookies)} ELSE {})

\* The component of `page` mounts for a logged-in user (user /= None), every
\* other component is unmounted
Mount(user, page, cookies) ==
    /\ IF Truthy(user) /\ page = "dashboard" THEN DashboardMount(cookies) ELSE DashReset
    /\ QuizReset
    /\ allCharacters' = IF Truthy(user) /\ page = "quiz"
                        THEN OkBody(CharactersRequest(cookies), NoCharacters)
                        ELSE NoCharacters

\* Home mounts: useEffect -> checkAuth
LoadPage ==
    LET reply == AuthGET(jar)
        cookies == IF reply.cookie = "delete" THEN [jar EXCEPT !.user = None] ELSE jar
    IN  /\ jar' = cookies
        /\ appUser' = reply.user
        /\ currentPage' = "dashboard"
        /\ Mount(reply.user, "dashboard", cookies)
        /\ userDirs' = IF Truthy(reply.user)
                       THEN MountDirs("dashboard", cookies, userDirs) ELSE userDirs
        /\ last' = <<Request("GET /api/auth", None, jar, 200, reply.user)>>
                   \o (IF Truthy(reply.user) THEN MountRequests("dashboard", cookies)
                       ELSE <<>>)
        /\ UNCHANGED <<now, inflight, usersFile, storeVars>>

\* handleLogout
HandleLogout ==
    \E reply \in {AuthPOST("logout", None, None)} :
        /\ Truthy(appUser)
        /\ usersFile' = reply.usersFile
        /\ jar' = Cookies(reply)
        /\ appUser' = None
        /\ currentPage' = "dashboard"
        /\ Mount(None, "dashboard", jar')
        /\ last' = <<Request("POST /api/auth",
                             [action |-> "logout", username |-> None, password |-> None],
                             jar, reply.status, AuthBody(reply))>>
        /\ UNCHANGED <<now, inflight, userDirs, storeVars>>

\* The navigation buttons: setCurrentPage(page)
Navigate(page) ==
    /\ Truthy(appUser)
    /\ page /= currentPage
    /\ currentPage' = page
    /\ Mount(appUser, page, jar)
    /\ userDirs' = MountDirs(page, jar, userDirs)
    /\ last' = MountRequests(page, jar)
    /\ UNCHANGED <<now, inflight, usersFile, storeVars, jar, appUser>>

----------------------------------------------------------------------------
(* components/auth-form.tsx *)

\* handleSubmit
Submit(isLogin, username, password, confirmPassword) ==
    LET action == IF isLogin THEN "login" ELSE "register"
        sent == /\ Truthy(Trim(username)) /\ Truthy(password)
                /\ (isLogin \/ Truthy(confirmPassword))
                /\ (isLogin \/ password = confirmPassword)
        reply == AuthPOST(action, Trim(username), password)
        ok == sent /\ reply.status = 200
    IN  /\ ~Truthy(appUser)
        /\ usersFile' = IF sent THEN reply.usersFile ELSE usersFile
        /\ jar' = IF sent THEN Cookies(reply) ELSE jar
        /\ appUser' = IF ok THEN reply.username ELSE appUser
        /\ currentPage' = currentPage
        /\ Mount(appUser', currentPage, jar')
        /\ userDirs' = IF ok THEN MountDirs(currentPage, jar', reply.userDirs)
                       ELSE IF sent THEN reply.userDirs ELSE userDirs
        /\ last' = IF ~sent THEN <<>>
                   ELSE <<Request("POST /api/auth",
                                  [action |-> action, username |-> Trim(username),
                                   password |-> password],
                                  jar, reply.status, AuthBody(reply))>>
                        \o (IF ok THEN MountRequests(currentPage, jar') ELSE <<>>)
        /\ UNCHANGED <<now, inflight, storeVars>>

----------------------------------------------------------------------------
(* The character-upload component (unnamed/part_000) *)

UploadShown == Truthy(appUser) /\ currentPage = "upload"

\* One request to POST /api/characters and the fetchCharacters that follows
\* a response that is ok: always, or only when nothing was skipped
UploadPost(newCharacters, always) ==
    \E reply \in {CharactersPOST(jar, newCharacters, now)} :
        LET post == Request("POST /api/characters", newCharacters, jar,
                            reply.status, reply.body)
        IN  /\ reply.status = 200 => Len(reply.file.lines) <= MaxChars
            /\ userDirs' = DataDirs(getUsername(jar))
            /\ charFile' = IF reply.status = 200
                           THEN [charFile EXCEPT ![getCharactersFile(getUsername(jar))] =
                                     reply.file]
                           ELSE charFile
            /\ last' = IF reply.status = 200 /\ (always \/ ~(reply.body.skipped > 0))
                       THEN <<post, Request("GET /api/characters", None, jar, 200,
                                            parseCharactersCSV(reply.file.lines, now))>>
                       ELSE <<post>>
            /\ UNCHANGED <<now, inflight, usersFile, progFile, histFile, submitted, clientVars,
                           quizVars, dashVars>>

\* addCharacter
AddCharacter(character, pinyin, meaning, phrase) ==
    /\ UploadShown
    /\ IF ~Truthy(character) \/ ~Truthy(pinyin) \/ ~Truthy(meaning)
       THEN /\ last' = <<>>
            /\ UNCHANGED <<now, inflight, serverVars, clientVars, quizVars, dashVars>>
       ELSE UploadPost(<<Character(Digits(now), character, pinyin, meaning, phrase)>>,
                       FALSE)

\* handleCSVUpload, reader.onload: the body of lines.forEach((line, index) =>
\* ...) for a line of fields `parts`
csvCharacter(parts, index, t) ==
    IF Truthy(Trim(At(parts, 1))) /\ Truthy(Trim(At(parts, 2))) /\ Truthy(Trim(At(parts, 3)))
    THEN <<Character(Digits(t) \o Digits(index), Trim(At(parts, 1)), Trim(At(parts, 2)),
                     Trim(At(parts, 3)), Or(Trim(At(parts, 4)), <<>>))>>
    ELSE <<>>

\* handleCSVUpload, reader.onload: the characters of the lines after the
\* header line, from line `index` on
RECURSIVE csvCharacters(_, _, _)
csvCharacters(lines, index, t) ==
    IF index > Len(lines) THEN <<>>
    ELSE csvCharacter(SplitComma(lines[index]), index, t)
         \o csvCharacters(lines, index + 1, t)

HandleCSVUpload(lines) ==
    /\ UploadShown
    /\ UploadPost(csvCharacters(lines, 1, now), TRUE)

\* removeCharacter
RemoveCharacter(id) ==
    \E reply \in {CharactersDELETE(jar, id, now)} :
        /\ UploadShown
        /\ userDirs' = DataDirs(getUsername(jar))
        /\ charFile' = IF reply.status = 200
                       THEN [charFile EXCEPT ![getCharactersFile(getUsername(jar))] = reply.file]
                       ELSE charFile
        /\ last' = <<Request("DELETE /api/characters", id, jar, reply.status, reply.body)>>
        /\ UNCHANGED <<now, inflight, usersFile, progFile, histFile, submitted, clientVars, quizVars, dashVars>>

----------------------------------------------------------------------------
(* components/quiz-mode.tsx.  currentIndex counts from 0 as in the source. *)

QuizShown == Truthy(appUser) /\ currentPage = "quiz" /\ allCharacters /= NoCharacters

QuizTypes == {"recognition", "reverse", "multiple-choice"}

countOptions == {5, 10, 20, 30}

\* [...allCharacters].sort(() => Math.random() - 0.5): any order of the pool
Shuffles(pool) ==
    {[i \in 1..Len(pool) |-> pool[perm[i]]] :
        perm \in {f \in [1..Len(pool) -> 1..Len(pool)] :
                    \A i, j \in 1..Len(pool) : i /= j => f[i] /= f[j]}}

\* A selection that draws each question from the whole pool
selectWithReplacement(count) ==
    [1..Min(count, Len(allCharacters)) -> Range(allCharacters)]

\* selectRandomCharacters: the question sets a choice of `count` can give
selectRandomCharacters(count) ==
    {Slice(shuffled, Min(count, Len(allCharacters))) : shuffled \in Shuffles(allCharacters)}

currentCharacter == quizCharacters[currentIndex + 1]

\* generateMultipleChoiceOptions returns: its loop ends once the options hold
\* min(4, pool size) characters of pairwise different ids
MultipleChoiceOptionsExist ==
    Cardinality({allCharacters[i].id : i \in 1..Len(allCharacters)})
        >= Min(4, Len(allCharacters))

\* The option generation of a question returns
OptionsGenerated(type) == type = "recognition" \/ MultipleChoiceOptionsExist

\* generateMultipleChoiceOptions, the while loop: the lists it can end
\* with, from `options` on.  A pick that is among the options already
\* changes nothing; when no character of another id is left to pick and
\* the list is short of min(4, pool size), the loop does not end.
RECURSIVE pushRandomChars(_)
pushRandomChars(options) ==
    IF Len(options) >= Min(4, Len(allCharacters)) THEN {options}
    ELSE UNION {pushRandomChars(Append(options, randomChar)) :
                   randomChar \in {c \in Range(allCharacters) :
                                      \A k \in 1..Len(options) : options[k].id /= c.id}}

\* generateMultipleChoiceOptions(index, chars): the lists it can set
generateMultipleChoiceOptions(index, chars) ==
    UNION {Shuffles(options) : options \in pushRandomChars(<<chars[index + 1]>>)}

\* allCharacters.filter(c => c.id !== id)
RECURSIVE otherChars(_, _)
otherChars(chars, id) ==
    IF chars = <<>> THEN <<>>
    ELSE (IF Head(chars).id /= id THEN <<Head(chars)>> ELSE <<>>)
             \o otherChars(Tail(chars), id)

\* generatePinyinOptions that pushes every pinyin
RECURSIVE pushPinyinsAll(_, _)
pushPinyinsAll(options, chars) ==
    IF chars = <<>> \/ Len(options) >= 4 THEN options
    ELSE pushPinyinsAll(Append(options, Head(chars).pinyin), Tail(chars))

\* generatePinyinOptions, the for loop over shuffledOthers
RECURSIVE pushPinyins(_, _)
pushPinyins(options, chars) ==
    IF chars = <<>> \/ Len(options) >= 4 THEN options
    ELSE pushPinyins(IF Head(chars).pinyin \in Range(options) THEN options
                     ELSE Append(options, Head(chars).pinyin),
                     Tail(chars))

\* generatePinyinOptions(index, chars): the lists it can set
generatePinyinOptions(index, chars) ==
    UNION {Shuffles(Slice(pushPinyins(<<chars[index + 1].pinyin>>, shuffledOthers), 4)) :
              shuffledOthers \in Shuffles(otherChars(allCharacters, chars[index + 1].id))}

\* The options of question `index` are generated: the pinyins for the
\* reading quiz, the characters for the other two
GenerateOptions(type, index, chars) ==
    IF type = "recognition"
    THEN /\ pinyinOptions' \in generatePinyinOptions(index, chars)
         /\ UNCHANGED multipleChoiceOptions
    ELSE /\ multipleChoiceOptions' \in generateMultipleChoiceOptions(index, chars)
         /\ UNCHANGED pinyinOptions

\* handleMultipleChoice scoring by the glyph
handleMultipleChoiceByGlyph(selectedChar, isCorrect) ==
    /\ isCorrect = (selectedChar.character = currentCharacter.character)
    /\ selectedChoice' = <<selectedChar.id>>
    /\ UNCHANGED selectedPinyin

\* handleRecognitionAnswer: isCorrect and setSelectedPinyin
handleRecognitionAnswer(selectedPinyinOption, isCorrect) ==
    /\ isCorrect = (selectedPinyinOption = currentCharacter.pinyin)
    /\ selectedPinyin' = <<selectedPinyinOption>>
    /\ UNCHANGED selectedChoice

\* handleMultipleChoice: isCorrect and setSelectedChoice
handleMultipleChoice(selectedChar, isCorrect) ==
    /\ isCorrect = (selectedChar.id = currentCharacter.id)
    /\ selectedChoice' = <<selectedChar.id>>
    /\ UNCHANGED selectedPinyin

\* The button pressed: one of the options shown, or Yes or No of the
\* writing quiz
Select(isCorrect) ==
    IF quizType = "recognition"
    THEN \E selectedPinyinOption \in Range(pinyinOptions) :
             handleRecognitionAnswer(selectedPinyinOption, isCorrect)
    ELSE IF quizType = "multiple-choice"
    THEN \E selectedChar \in Range(multipleChoiceOptions) :
             handleMultipleChoice(selectedChar, isCorrect)
    ELSE UNCHANGED <<selectedPinyin, selectedChoice>>

QuizStat(characterId, correct, incorrect, lastAttempt) ==
    [characterId |-> characterId, correct |-> correct, incorrect |-> incorrect,
     lastAttempt |-> lastAttempt]

\* updateStats that tallies the correct answers only
updateStatsCorrect(stats, isCorrect) ==
    IF isCorrect
    THEN Append(stats, QuizStat(currentCharacter.id, 1, 0, now))
    ELSE stats

\* updateStats
updateStats(stats, isCorrect) ==
    IF \E i \in 1..Len(stats) : stats[i].characterId = currentCharacter.id
    THEN LET k == CHOOSE i \in 1..Len(stats) :
                    /\ stats[i].characterId = currentCharacter.id
                    /\ \A j \in 1..(i - 1) : stats[j].characterId /= currentCharacter.id
         IN  [stats EXCEPT ![k] =
                 QuizStat(@.characterId,
                          @.correct + (IF isCorrect THEN 1 ELSE 0),
                          @.incorrect + (IF isCorrect THEN 0 ELSE 1),
                          now)]
    ELSE Append(stats, QuizStat(currentCharacter.id,
                                IF isCorrect THEN 1 ELSE 0,
                                IF isCorrect THEN 0 ELSE 1,
                                now))

\* The quiz type cards: setQuizType(type)
ChooseType(type) ==
    /\ QuizShown
    /\ quizType = Null
    /\ quizType' = type
    /\ last' = <<>>
    /\ UNCHANGED <<now, inflight, serverVars, clientVars, dashVars, generating,
                  allCharacters, characterCount,
                   quizCharacters, currentIndex, feedback, sessionStats, quizComplete, timer,
                   choiceVars>>

\* BackToType offered in every phase
BackToTypeAnywhere ==
    /\ QuizShown
    /\ quizType /= Null
    /\ quizType' = Null
    /\ last' = <<>>
    /\ UNCHANGED <<now, inflight, serverVars, clientVars, dashVars, generating,
                  allCharacters, characterCount,
                   quizCharacters, currentIndex, feedback, sessionStats, quizComplete, timer,
                   choiceVars>>

\* "Back to Quiz Type": setQuizType(null)
BackToType ==
    /\ QuizShown
    /\ quizType /= Null
    /\ characterCount = NoCount
    /\ quizType' = Null
    /\ last' = <<>>
    /\ UNCHANGED <<now, inflight, serverVars, clientVars, dashVars, generating,
                  allCharacters, characterCount,
                   quizCharacters, currentIndex, feedback, sessionStats, quizComplete, timer,
                   choiceVars>>

\* The count cards
ChooseCount(count) ==
    /\ QuizShown
    /\ quizType /= Null
    /\ characterCount = NoCount
    /\ OptionsGenerated(quizType)
    /\ quizCharacters' \in selectRandomCharacters(count)
    /\ characterCount' = count
    /\ GenerateOptions(quizType, 0, quizCharacters')
    /\ last' = <<>>
    /\ UNCHANGED <<now, inflight, serverVars, clientVars, dashVars, generating,
                  allCharacters, quizType,
                   currentIndex, feedback, sessionStats, quizComplete, timer,
                   selectedPinyin, selectedChoice>>

\* Answer without the test of feedback on the buttons
AnswerUnguarded(isCorrect) ==
    /\ QuizShown
    /\ characterCount /= NoCount
    /\ ~quizComplete
    /\ Select(isCorrect)
    /\ feedback' = IF isCorrect THEN "correct" ELSE "incorrect"
    /\ sessionStats' = updateStats(sessionStats, isCorrect)
    /\ timer' = IF feedback' = feedback THEN timer
                ELSE Timeout("pending", quizType, quizCharacters, currentIndex, sessionStats')
    /\ last' = <<>>
    /\ UNCHANGED <<now, inflight, serverVars, clientVars, dashVars, generating,
                  allCharacters, quizType,
                   characterCount, quizCharacters, currentIndex, quizComplete,
                   pinyinOptions, multipleChoiceOptions>>

\* handleRecognitionAnswer, handleMultipleChoice and the self-assessment
\* buttons of the writing quiz, which answer only while no feedback is shown
Answer(isCorrect) ==
    /\ QuizShown
    /\ characterCount /= NoCount
    /\ ~quizComplete
    /\ feedback = Null
    /\ Select(isCorrect)
    /\ feedback' = IF isCorrect THEN "correct" ELSE "incorrect"
    /\ sessionStats' = updateStats(sessionStats, isCorrect)
    /\ timer' = Timeout("pending", quizType, quizCharacters, currentIndex, sessionStats')
    /\ last' = <<>>
    /\ UNCHANGED <<now, inflight, serverVars, clientVars, dashVars, generating,
                  allCharacters, quizType,
                   characterCount, quizCharacters, currentIndex, quizComplete,
                   pinyinOptions, multipleChoiceOptions>>

quizTypeLabel(type) ==
    CASE type = "recognition"     -> <<"R", "e", "a", "d">>
      [] type = "reverse"         -> <<"W", "r", "i", "t", "i", "n", "g">>
      [] type = "multiple-choice" -> <<"M", "u", "l", "t", "i", "p", "l", "e", " ",
                                       "C", "h", "o", "i", "c", "e">>

RECURSIVE statsCorrect(_)
statsCorrect(stats) ==
    IF stats = <<>> THEN 0 ELSE Head(stats).correct + statsCorrect(Tail(stats))

RECURSIVE statsAttempts(_)
statsAttempts(stats) ==
    IF stats = <<>> THEN 0
    ELSE Head(stats).correct + Head(stats).incorrect + statsAttempts(Tail(stats))

\* progressToSave without the counts of wrong answers
progressToSaveCorrect(stats) ==
    [i \in 1..Len(stats) |-> <<stats[i].characterId, Stats(stats[i].correct, 0)>>]

\* saveProgress: progressToSave
progressToSave(stats) ==
    [i \in 1..Len(stats) |-> <<stats[i].characterId, Stats(stats[i].correct, stats[i].incorrect)>>]

\* saveProgress: the body posted to /api/quiz-history
sessionToSave(stats, type, characters) ==
    LET correctCount  == statsCorrect(stats)
        totalAttempts == statsAttempts(stats)
    IN  QuizSession(now, quizTypeLabel(type), Len(characters), correctCount,
                    IF totalAttempts > 0 THEN RoundPercent(correctCount, totalAttempts)
                    ELSE 0)

\* saveProgress: the two requests, one after the other, with the state the
\* handler closes over
saveProgress(stats, type, characters) ==
    \E progress \in {ProgressPOST(jar, progressToSave(stats))},
       history \in {HistoryPOST(jar, sessionToSave(stats, type, characters))} :
        /\ userDirs' = DataDirs(getUsername(jar)) \cup DataDirs(getUsernameHistory(jar))
        /\ progFile' = IF progress.status = 200
                       THEN [progFile EXCEPT ![getProgressFile(getUsername(jar))] =
                                 progress.file]
                       ELSE progFile
        /\ histFile' = IF history.status = 200
                       THEN [histFile EXCEPT ![getQuizHistoryFile(getUsernameHistory(jar))] =
                                 history.file]
                       ELSE histFile
        /\ submitted' = IF progress.status = 200
                        THEN [submitted EXCEPT ![getUsername(jar)] =
                                  Submit1(@, progressToSave(stats))]
                        ELSE submitted
        /\ last' = <<Request("POST /api/progress", progressToSave(stats), jar,
                             progress.status, progress.body),
                     Request("POST /api/quiz-history", sessionToSave(stats, type, characters),
                             jar, history.status, history.body)>>

\* The stores stay within the model's bounds when the session is saved
SaveBounded(stats) ==
    /\ Truthy(getUsername(jar)) =>
            CountsBounded(ProgressPOST(jar, progressToSave(stats)).file)
    /\ Truthy(getUsernameHistory(jar)) =>
            Len(histFile[getQuizHistoryFile(getUsernameHistory(jar))].lines) < MaxHistory

\* The auto-advance timeout fires: the handleNext of the render that set it
\* runs.  Its setters act on the component that set the timeout if it is
\* still mounted (the cleanup of the effect sees to it that it is), and on
\* nothing otherwise.
HandleNext ==
    \E mounted \in {QuizShown /\ feedback /= Null} :
        /\ Pending(timer)
        /\ timer' = NoTimeout
        /\ feedback' = IF mounted THEN Null ELSE feedback
        /\ selectedPinyin' = IF mounted THEN NoSelection ELSE selectedPinyin
        /\ selectedChoice' = IF mounted THEN NoSelection ELSE selectedChoice
        /\ IF timer.currentIndex < Len(timer.quizCharacters) - 1
           THEN /\ mounted => OptionsGenerated(timer.quizType)
                /\ currentIndex' = IF mounted THEN timer.currentIndex + 1 ELSE currentIndex
                /\ IF mounted
                   THEN GenerateOptions(timer.quizType, timer.currentIndex + 1,
                                        timer.quizCharacters)
                   ELSE UNCHANGED <<pinyinOptions, multipleChoiceOptions>>
                /\ last' = <<>>
                /\ UNCHANGED <<serverVars, quizComplete>>
           ELSE /\ quizComplete' = IF mounted THEN TRUE ELSE quizComplete
                /\ SaveBounded(timer.sessionStats)
                /\ saveProgress(timer.sessionStats, timer.quizType, timer.quizCharacters)
                /\ UNCHANGED <<usersFile, charFile, currentIndex, pinyinOptions,
                               multipleChoiceOptions>>
        /\ UNCHANGED <<now, inflight, clientVars, dashVars, generating,
                      allCharacters, quizType,
                       characterCount, quizCharacters, sessionStats>>

\* "Try Another Quiz"
TryAnotherQuiz ==
    /\ QuizShown
    /\ quizComplete
    /\ SessionReset
    /\ last' = <<>>
    /\ UNCHANGED <<now, inflight, serverVars, clientVars, dashVars, generating, allCharacters,
                   pinyinOptions, multipleChoiceOptions>>

----------------------------------------------------------------------------
(* The inputs *)

AuthActions == {"register", "login", "logout", "reset"}

UsernameInputs ==
    {None, <<"a">>, AB, CD, <<"a", "-">>, <<" ", "a", "b">>,
     Rep("a", MaxUsernameLength + 1)}

Pass == <<"p", "a", "s", "s">>
Word == <<"w", "o", "r", "d">>

PasswordInputs == {None, <<"p", "w", "d">>, Pass, Word}

\* What the user types into the four fields: two glyphs, one of them with a
\* second reading, a meaning that holds a comma, and a form without glyph.
\* No glyph and no pinyin holds a comma.
FieldInputs ==
    {<<<<"A">>, <<"x">>, <<"m">>, <<"A", "B">>>>,
     <<<<"B">>, <<"y">>, <<"n">>, <<>>>>,
     <<<<"A">>, <<"y">>, <<"m", ",", "n">>, <<>>>>,
     <<<<>>, <<"x">>, <<"m">>, <<>>>>}

\* The lines of an uploaded file: the two glyphs, the second padded with
\* blanks, and a line of two fields
CsvLineInputs ==
    {<<"A", ",", "x", ",", "m", ",", "A", "B">>,
     <<" ", "B", " ", ",", "y", ",", "n">>,
     <<"B", ",", "y">>}

SeqsUpTo(S, n) == UNION {[1..k -> S] : k \in 1..n}

CsvInputs == SeqsUpTo(CsvLineInputs, MaxBatch)

\* The bodies sent to POST /api/characters: what the upload component sends
BatchInputs ==
    {csvCharacters(lines, 1, now) : lines \in CsvInputs}
        \cup {<<Character(Digits(now), f[1], f[2], f[3], f[4])>> : f \in FieldInputs}

All == <<"a", "l", "l">>

\* The ids of the characters stored for the user of the `user` cookie
StoredIds ==
    IF Truthy(getUsername(jar))
    THEN {c.id : c \in Range(readCharacters(charFile[getCharactersFile(getUsername(jar))], now))}
    ELSE {}

IdInputs == StoredIds \cup {None, All, Digits(0)}

\* The characterIds progress is posted for: the ids of two characters
ProgressIds == {Digits(0), Digits(1)}

\* The id of the first of them behind a blank
PaddedId == <<" ">> \o Digits(0)

IncrementInputs ==
    {Stats(c, i) : c \in 0..MaxIncrement, i \in 0..MaxIncrement} \ {Stats(0, 0)}

\* The bodies sent to POST /api/progress: one or two characterIds, or a
\* correct answer for the padded id
ProgressInputs ==
    {<<<<id, inc>>>> : id \in ProgressIds, inc \in IncrementInputs}
        \cup {<<<<ids[1], Stats(1, 0)>>, <<ids[2], Stats(0, 1)>>>> :
                 ids \in {p \in ProgressIds \X ProgressIds : p[1] /= p[2]}}
        \cup {<<<<PaddedId, Stats(1, 0)>>>>}

\* The bodies sent to POST /api/quiz-history
SessionInputs ==
    {QuizSession(t, quizTypeLabel("recognition"), 2, k, RoundPercent(k, 2)) :
        t \in 0..MaxClock, k \in {1, 2}}

LimitInputs == {0, 1, DashboardLimit, DefaultLimit}

Pages == {"dashboard", "upload", "quiz"}

HistoryRoom ==
    Truthy(getUsernameHistory(jar)) =>
        Len(histFile[getQuizHistoryFile(getUsernameHistory(jar))].lines) < MaxHistory

----------------------------------------------------------------------------
(* The whole system *)

AuthStep ==
    \/ \E action \in AuthActions, username \in UsernameInputs, password \in PasswordInputs :
            ApiAuth(action, username, password)
    \/ \E isLogin \in BOOLEAN, username \in UsernameInputs,
           password \in PasswordInputs, confirmPassword \in PasswordInputs :
            Submit(isLogin, username, password, confirmPassword)
    \/ HandleLogout
    \/ LoadPage

CharactersStep ==
    \/ ApiCharactersGET
    \/ \E newCharacters \in BatchInputs : ApiCharactersPOST(newCharacters)
    \/ \E id \in IdInputs : ApiCharactersDELETE(id)

ProgressStep ==
    \/ ApiProgressGET
    \/ \E newProgress \in ProgressInputs : ApiProgressPOST(newProgress)
    \/ ApiProgressDELETE

HistoryStep ==
    \/ \E limit \in LimitInputs : ApiHistoryGET(limit)
    \/ \E newSession \in SessionInputs : HistoryRoom /\ ApiHistoryPOST(newSession)

UploadStep ==
    \/ \E f \in FieldInputs : AddCharacter(f[1], f[2], f[3], f[4])
    \/ \E lines \in CsvInputs : HandleCSVUpload(lines)
    \/ \E id \in StoredIds : RemoveCharacter(id)

QuizStep ==
    \/ \E type \in QuizTypes : ChooseType(type)
    \/ BackToType
    \/ \E count \in countOptions : ChooseCount(count)
    \/ \E isCorrect \in BOOLEAN : Answer(isCorrect)
    \/ HandleNext
    \/ TryAnotherQuiz

Next ==
    \/ Tick
    \/ AuthStep
    \/ \E page \in Pages : Navigate(page)
    \/ CharactersStep
    \/ ProgressStep
    \/ HistoryStep
    \/ UploadStep
    \/ QuizStep

Spec == Init /\ [][Next]_vars

----------------------------------------------------------------------------
(* Authentication: the auth route, the auth form and the page, from the     *)
(* initial state of a browser that holds no cookie.  The data routes are    *)
(* read to see what the session gives access to.                            *)

InitAuth == Init /\ jar.username = None

NextAuth ==
    \/ \E action \in AuthActions, username \in UsernameInputs, password \in PasswordInputs :
            ApiAuth(action, username, password)
    \/ ApiCharactersGET
    \/ ApiProgressGET
    \/ ApiHistoryGET(DefaultLimit)

SpecAuth == InitAuth /\ [][NextAuth]_vars

\* The requests of `requests` sent to POST /api/auth with `action`
AuthRequests(requests, action) ==
    {i \in 1..Len(requests) :
        requests[i].op = "POST /api/auth" /\ requests[i].req.action = action}

\* The username matches [A-Za-z0-9_]{2,20}
WellFormedUsername(username) ==
    /\ Len(username) \in 2..20
    /\ Range(username) \subseteq Letters \cup Digit \cup {"_"}

ValidationMessages ==
    {"Username and password are required",
     "Username must be 2-20 characters",
     "Password must be at least 4 characters",
     "Username can only contain letters, numbers, and underscores"}

\* C6: register(username, password) fails with a validation error when the
\* username does not match [A-Za-z0-9_]{2,20} or the password is shorter than
\* 4 characters; otherwise fails with the duplicate-user error when the
\* username is already in the user store; otherwise succeeds, adding exactly
\* one user record and leaving every other user's record unchanged.  A failed
\* registration leaves the user store as it was.
RegisterContract ==
    [][\A i \in AuthRequests(last', "register") :
          LET username == last'[i].req.username
              password == last'[i].req.password
          IN  IF ~WellFormedUsername(username) \/ Len(password) < 4
              THEN /\ last'[i].status = 400
                   /\ last'[i].body.error \in ValidationMessages
                   /\ usersFile' = usersFile
              ELSE IF username \in MapKeys(loadUsers)
              THEN /\ last'[i].status = 400
                   /\ last'[i].body.error = "Username already exists"
                   /\ usersFile' = usersFile
              ELSE /\ last'[i].status = 200
                   /\ Len(loadUsers') = Len(loadUsers) + 1
                   /\ MapKeys(loadUsers') = MapKeys(loadUsers) \cup {username}
                   /\ MapGet(loadUsers', username) = hashPassword(password)
                   /\ \A other \in MapKeys(loadUsers) :
                          MapGet(loadUsers', other) = MapGet(loadUsers, other)]_vars

\* A second user has just registered
RegisteredSecond ==
    /\ AuthRequests(last, "register") /= {}
    /\ \A i \in AuthRequests(last, "register") : last[i].status = 200
    /\ Len(loadUsers) = 2

\* C7: login(username, password) sets the session identity to username if
\* and only if the username is in the user store and the stored hash equals
\* the hash of the given password; for an unknown username or a mismatching
\* password it fails with InvalidCredentials (401, "Invalid username or
\* password") and sets no session identity.
LoginContract ==
    [][\A i \in AuthRequests(last', "login") :
          LET username == last'[i].req.username
              password == last'[i].req.password
          IN  IF /\ MapHas(loadUsers, username)
                 /\ MapGet(loadUsers, username) = hashPassword(password)
              THEN /\ last'[i].status = 200
                   /\ jar'.user = username
              ELSE /\ last'[i].status = 401
                   /\ last'[i].body.error = "Invalid username or password"
                   /\ jar'.user = jar.user]_vars

----------------------------------------------------------------------------
(* The page: the auth form, the Logout button, a reload and the navigation  *)
(* buttons, from the same initial state.  What is typed into the form is a  *)
(* well-formed name, bare or padded with a blank, and a well-formed         *)
(* password.                                                                *)

FormUsernames == {AB, CD, <<" ", "a", "b">>}

NextPage ==
    \/ \E isLogin \in BOOLEAN, username \in FormUsernames, confirmPassword \in {Pass, Word} :
            Submit(isLogin, username, Pass, confirmPassword)
    \/ HandleLogout
    \/ LoadPage
    \/ \E page \in Pages : Navigate(page)
    \/ ApiCharactersGET
    \/ ApiProgressGET
    \/ ApiHistoryGET(DefaultLimit)

SpecPage == InitAuth /\ [][NextPage]_vars

\* The session is absent: the session check reports no user and the data
\* routes answer Unauthenticated
SessionAbsent ==
    /\ jar.user = None
    /\ AuthGET(jar).user = None
    /\ CharactersGET(jar, now).status = 401
    /\ ProgressGET(jar).status = 401
    /\ HistoryGET(jar, DefaultLimit).status = 401

\* C8: a logout request issued by a logged-in client clears the session
\* identity: after it the client's requests carry no identity, the session
\* check reports no user and the data routes answer Unauthenticated.
LogoutClears ==
    \A i \in AuthRequests(last, "logout") :
        Truthy(last[i].cookies.user) => SessionAbsent

----------------------------------------------------------------------------
(* The character list: user "ab" has registered through the form and has    *)
(* opened the upload page.  Characters are typed in, uploaded as files and  *)
(* removed, all within one tick of the clock.                               *)

\* `username` has registered through the form at time t, has uploaded the
\* file of `lines` (if any) and has opened `page`
RegisteredWith(username, page, t, lines) ==
    /\ now = t
    /\ usersFile = saveUsersCSV(<<<<username, hashPassword(Pass)>>>>)
    /\ userDirs = {username}
    /\ charFile = [u \in DirNames |->
                      IF u = username /\ lines /= <<>>
                      THEN File(toCharactersCSV(csvCharacters(lines, 1, t)))
                      ELSE NoFile]
    /\ progFile = [u \in DirNames |-> NoFile]
    /\ histFile = [u \in DirNames |-> NoFile]
    /\ submitted = [u \in DirNames |-> <<>>]
    /\ inflight = <<>>
    /\ jar = [user |-> username, username |-> None]
    /\ appUser = username
    /\ currentPage = page
    /\ allCharacters = IF page = "quiz"
                       THEN readCharacters(charFile[getCharactersFile(username)], t)
                       ELSE NoCharacters
    /\ DashInit

\* and has not begun a quiz
LoggedInWith(username, page, t, lines) ==
    /\ RegisteredWith(username, page, t, lines)
    /\ QuizIdle
    /\ NoOptions

LoggedIn(username, page) == LoggedInWith(username, page, 0, <<>>)

InitChars ==
    /\ LoggedIn(AB, "upload")
    /\ last = <<Request("GET /api/characters", None, jar, 200, <<>>)>>

NextChars ==
    \/ \E f \in FieldInputs : AddCharacter(f[1], f[2], f[3], f[4])
    \/ \E lines \in CsvInputs : HandleCSVUpload(lines)
    \/ \E id \in StoredIds : RemoveCharacter(id)

SpecChars == InitChars /\ [][NextChars]_vars

\* The state the upload page is entered in is a state of the page
UploadEntered == InitChars

\* The requests of `requests` that POST /api/characters answered with 200
BulkAdds(requests) ==
    {i \in 1..Len(requests) :
        requests[i].op = "POST /api/characters" /\ requests[i].status = 200}

\* C3: a characters bulk-add adds no record for an incoming record whose
\* glyph is already in the user's store, appends every other incoming record
\* in order behind the records stored before, and reports added = the number
\* appended and skipped = the number of incoming records not appended, so
\* that added + skipped = the size of the incoming batch.
BulkAddContract ==
    [][\A i \in BulkAdds(last') :
          \A before \in {readCharacters(charFile[last'[i].cookies.user], now)},
             after \in {readCharacters(charFile'[last'[i].cookies.user], now)} :
             LET incoming == last'[i].req
                 stored   == {before[k].character : k \in 1..Len(before)}
                 appended == SelectSeq(incoming, LAMBDA c : c.character \notin stored)
                 result   == last'[i].body
             IN  /\ Len(after) = Len(before) + Len(appended)
                 /\ \A k \in 1..Len(before) :
                         /\ after[k].id = before[k].id
                         /\ after[k].character = before[k].character
                 /\ \A k \in 1..Len(appended) :
                         /\ after[Len(before) + k].id = appended[k].id
                         /\ after[Len(before) + k].character = appended[k].character
                         /\ after[Len(before) + k].pinyin = appended[k].pinyin
                 /\ result.added = Len(appended)
                 /\ result.skipped = Len(incoming) - Len(appended)
                 /\ result.added + result.skipped = Len(incoming)]_vars

\* A file of a stored glyph and a new one has just been uploaded
AddedAndSkipped ==
    \E i \in BulkAdds(last) : last[i].body.added = 1 /\ last[i].body.skipped = 1

----------------------------------------------------------------------------
(* The progress store: user "ab" has registered through the form, and the   *)
(* dashboard is shown.  Progress is merged, read and cleared.               *)

InitProgress ==
    /\ LoggedIn(AB, "dashboard")
    /\ last = MountRequests("dashboard", jar)

NextProgress ==
    \/ \E newProgress \in ProgressInputs : ApiProgressPOST(newProgress)
    \/ ApiProgressGET
    \/ ApiProgressDELETE

SpecProgress == InitProgress /\ [][NextProgress]_vars

\* The state the dashboard is entered in after registering is a state of the page
DashboardEntered == InitProgress

\* The store of u holds one row for each characterId submitted since the
\* last clear, with the sums of the increments submitted for it, and no
\* other row
SumsStored(u) ==
    \A stored \in {readProgress(progFile[u])} :
        /\ MapKeys(stored) = DOMAIN submitted[u]
        /\ Len(stored) = Cardinality(DOMAIN submitted[u])
        /\ \A id \in DOMAIN submitted[u] :
               /\ MapGet(stored, id).correct = submitted[u][id].correct
               /\ MapGet(stored, id).incorrect = submitted[u][id].incorrect

\* A characterId that a line of progress.csv gives back as it was written:
\* not empty, without a comma, without a blank at either end
PlainId(id) == Truthy(id) /\ Trim(id) = id /\ "," \notin Range(id)

----------------------------------------------------------------------------
(* The dashboard: from the same state the user adds and removes characters  *)
(* on the upload page, progress is merged for characters of the list (what  *)
(* a finished quiz sends, up to MaxCount attempts in all), and the          *)
(* dashboard is opened again.                                               *)

\* The glyphs added while the dashboard is studied
DashInputs == {f \in FieldInputs : Truthy(f[1]) /\ f[2] /= f[3]}

NextDash ==
    \/ Tick
    \/ \E page \in {"dashboard", "upload"} : Navigate(page)
    \/ LoadPage
    \/ \E f \in DashInputs : AddCharacter(f[1], f[2], f[3], f[4])
    \/ \E id \in StoredIds : RemoveCharacter(id)
    \/ \E id \in StoredIds, increment \in {Stats(1, 0), Stats(0, 1)} :
            /\ SumAttempts(readProgress(progFile[AB])) < MaxCount
            /\ ApiProgressPOST(<<<<id, increment>>>>)

SpecDash == InitProgress /\ [][NextDash]_vars

DashboardShown == Truthy(appUser) /\ currentPage = "dashboard"

\* The correct answers and the attempts of the characters of a list
RECURSIVE ListedCorrect(_, _)
ListedCorrect(characters, progress) ==
    IF characters = <<>> THEN 0
    ELSE charProgress(progress, Head(characters).id).correct
         + ListedCorrect(Tail(characters), progress)

RECURSIVE ListedAttempts(_, _)
ListedAttempts(characters, progress) ==
    IF characters = <<>> THEN 0
    ELSE charProgress(progress, Head(characters).id).correct
         + charProgress(progress, Head(characters).id).incorrect
         + ListedAttempts(Tail(characters), progress)

----------------------------------------------------------------------------
(* The quiz-history store of "ab", from the initial state of a browser that *)
(* holds the cookie username=ab.  Sessions are appended with a timestamp    *)
(* later than every stored one (the clock of the client runs on, up to      *)
(* MaxAppends) or, up to MaxStale times, with the timestamp 0 of a client   *)
(* whose clock is behind; the history is read with the limits in use.       *)

InitHistory == Init /\ jar.username = AB

RECURSIVE MaxTimestamp(_)
MaxTimestamp(history) ==
    IF history = <<>> THEN -1
    ELSE LET rest == MaxTimestamp(Tail(history))
         IN  IF Head(history).timestamp > rest THEN Head(history).timestamp ELSE rest

StaleSessions(history) == SelectSeq(history, LAMBDA s : s.correctAnswers < 2)

\* The sessions appended to a store that holds `history`
AppendInputs(history) ==
    {QuizSession(t, quizTypeLabel("recognition"), 2, 2, RoundPercent(2, 2)) :
        t \in {MaxTimestamp(history) + 1} \cap 0..MaxAppends}
    \cup {QuizSession(0, quizTypeLabel("multiple-choice"), 2, k, RoundPercent(k, 2)) :
            k \in IF Len(StaleSessions(history)) < MaxStale THEN {1} ELSE {}}

NextHistory ==
    \/ \E history \in {readHistory(histFile[AB])} :
           \E newSession \in AppendInputs(history) : ApiHistoryPOST(newSession)
    \/ \E limit \in {DashboardLimit, DefaultLimit} : ApiHistoryGET(limit)

SpecHistory == InitHistory /\ [][NextHistory]_vars

\* The requests of `requests` that POST /api/quiz-history answered with 200
HistoryAppends(requests) ==
    {i \in 1..Len(requests) :
        requests[i].op = "POST /api/quiz-history" /\ requests[i].status = 200}

\* The number of times session s occurs in a history
Occurrences(history, s) == Cardinality({k \in 1..Len(history) : history[k] = s})

\* C2: after any sequence of quiz-history appends the store of a user holds
\* at most 50 entries.  An append that does not make the count exceed 50
\* adds its entry and keeps every stored one; when the append makes the count
\* exceed 50, one entry is absent afterwards, it is an entry with the oldest
\* timestamp, and every other entry (the 50 with the greatest timestamps) is
\* retained.
HistoryCap ==
    [][\A i \in HistoryAppends(last') :
          \A before \in {readHistory(histFile[last'[i].cookies.username])},
             after \in {readHistory(histFile'[last'[i].cookies.username])} :
             \A all \in {Append(before, last'[i].req)} :
                /\ Len(after) <= 50
                /\ IF Len(all) <= 50
                   THEN /\ Len(after) = Len(all)
                        /\ \A s \in Range(all) :
                               Occurrences(after, s) = Occurrences(all, s)
                   ELSE \E j \in 1..Len(all) :
                          /\ \A k \in 1..Len(all) : all[j].timestamp <= all[k].timestamp
                          /\ Len(after) = Len(all) - 1
                          /\ \A s \in Range(all) :
                                 Occurrences(after, s) =
                                     Occurrences(all, s) - (IF s = all[j] THEN 1 ELSE 0)]_vars

\* A 51st session has just been appended and a session of timestamp 0 dropped
OldestDropped ==
    \E history \in {readHistory(histFile[AB])} :
        /\ HistoryAppends(last) /= {}
        /\ Len(history) = 50
        /\ history[1].timestamp = 50
        /\ \A k \in 1..Len(history) : history[k].timestamp > 0

----------------------------------------------------------------------------
(* The data routes under two users: "ab" and "cd" have registered with the  *)
(* auth route and logged out (by a logout request that repeats their        *)
(* credentials); the browser may hold a cookie `username`.  Either user     *)
(* logs in and out, and every operation of the three data routes is         *)
(* requested with the cookies the browser holds.  What is written is marked *)
(* with the identity the route reads: its glyph, its characterId, its quiz  *)
(* type.                                                                    *)

InitData ==
    /\ now = 0
    /\ usersFile = saveUsersCSV(<<<<AB, hashPassword(Pass)>>, <<CD, hashPassword(Pass)>>>>)
    /\ userDirs = {AB, CD}
    /\ charFile = [u \in DirNames |-> NoFile]
    /\ progFile = [u \in DirNames |-> NoFile]
    /\ histFile = [u \in DirNames |-> NoFile]
    /\ submitted = [u \in DirNames |-> <<>>]
    /\ inflight = <<>>
    /\ jar \in [user : {None}, username : {None} \cup Usernames]
    /\ appUser = None
    /\ currentPage = "dashboard"
    /\ last = <<Request("POST /api/auth",
                        [action |-> "logout", username |-> CD, password |-> Pass],
                        [jar EXCEPT !.user = CD], 200, AuthBody(AuthReply(200, "", None,
                                                        "delete", usersFile, userDirs)))>>
    /\ QuizInit
    /\ DashInit

\* The glyph, the characterId and the quiz type that mark what identity u writes
GlyphOf(u) == IF u = CD THEN <<"B">> ELSE <<"A">>

CharacterIdOf(u) == IF u = CD THEN Digits(1) ELSE Digits(0)

QuizTypeOf(u) == IF u = CD THEN quizTypeLabel("reverse") ELSE quizTypeLabel("recognition")

CharactersOf(u) == <<Character(Digits(now), GlyphOf(u), <<"x">>, <<"m">>, <<>>)>>

ProgressOf(u) == <<<<CharacterIdOf(u), Stats(1, 0)>>>>

SessionOf(u) == QuizSession(now, QuizTypeOf(u), 2, 1, RoundPercent(1, 2))

NextData ==
    \/ \E username \in Usernames : ApiAuth("login", username, Pass)
    \/ \E username \in Usernames : ApiAuth("logout", username, Pass)
    \/ ApiCharactersGET
    \/ ApiCharactersPOST(CharactersOf(getUsername(jar)))
    \/ \E id \in StoredIds \cup {All} : ApiCharactersDELETE(id)
    \/ ApiProgressGET
    \/ ApiProgressPOST(ProgressOf(getUsername(jar)))
    \/ ApiProgressDELETE
    \/ ApiHistoryGET(DefaultLimit)
    \/ HistoryRoom /\ ApiHistoryPOST(SessionOf(getUsernameHistory(jar)))

SpecData == InitData /\ [][NextData]_vars

\* Both users are registered and logged out
BothRegistered == InitData

CharactersOps == {"GET /api/characters", "POST /api/characters", "DELETE /api/characters"}

ProgressOps == {"GET /api/progress", "POST /api/progress", "DELETE /api/progress"}

HistoryOps == {"GET /api/quiz-history", "POST /api/quiz-history"}

\* The requests of `requests` sent to the data routes
DataRequests(requests) ==
    {i \in 1..Len(requests) :
        requests[i].op \in CharactersOps \cup ProgressOps \cup HistoryOps}

\* The session identity a request to a data route carries: the value of the
\* cookie the route takes the user from
Identity(request) ==
    IF request.op \in HistoryOps THEN request.cookies.username ELSE request.cookies.user

\* C9: every characters, progress and quiz-history operation (read, add,
\* merge, delete, clear, append) on a request that carries no session
\* identity fails with Unauthenticated (401, "Not authenticated"), and leaves
\* every store as it was.
NoIdentityRefused ==
    [][\A i \in DataRequests(last') :
          Identity(last'[i]) = None =>
              /\ last'[i].status = 401
              /\ last'[i].body = "Not authenticated"
              /\ charFile' = charFile
              /\ progFile' = progFile
              /\ histFile' = histFile]_vars

\* A delete of the characters was refused while "ab" has a character stored
DeleteRefused ==
    /\ last /= <<>>
    /\ last[1].op = "DELETE /api/characters"
    /\ last[1].status = 401
    /\ charFile[AB].lines /= <<>>

\* C10: data isolation.  For any two distinct users u and v, no characters,
\* progress or quiz-history operation performed under identity u changes any
\* of v's stores, and every read under identity u returns only records
\* written under identity u.
DataIsolation ==
    [][\A i \in DataRequests(last') :
          \A u \in {Identity(last'[i])} \cap Usernames :
              /\ \A v \in Usernames \ {u} :
                     /\ charFile'[v] = charFile[v]
                     /\ progFile'[v] = progFile[v]
                     /\ histFile'[v] = histFile[v]
              /\ last'[i].op = "GET /api/characters" =>
                     \A k \in 1..Len(last'[i].body) :
                         last'[i].body[k].character = GlyphOf(u)
              /\ last'[i].op = "GET /api/progress" =>
                     MapKeys(last'[i].body) \subseteq {CharacterIdOf(u)}
              /\ last'[i].op = "GET /api/quiz-history" =>
                     \A k \in 1..Len(last'[i].body) :
                         last'[i].body[k].quizType = QuizTypeOf(u)]_vars

\* "ab" reads its characters, progress or history while "cd" has stored some
ReadBesideOther ==
    /\ last /= <<>>
    /\ last[1].op = "GET /api/progress"
    /\ last[1].cookies.user = AB
    /\ last[1].body /= <<>>
    /\ progFile[CD].lines /= <<>>
    /\ charFile[CD].lines /= <<>>
    /\ histFile[CD].lines /= <<>>

----------------------------------------------------------------------------
(* The quiz: user "ab" has registered through the form, has uploaded a file *)
(* of MaxPool characters, two of them read alike, and has opened the quiz   *)
(* page.  Up to MaxQuizzes quizzes over the whole pool are taken.           *)

PoolLines ==
    SubSeq(<<<<"A", ",", "x", ",", "m", ",", "A", "B">>,
             <<"B", ",", "y", ",", "n">>,
             <<"C", ",", "x", ",", "m">>,
             <<"D", ",", "y", ",", "n">>,
             <<"E", ",", "z", ",", "m">>>>, 1, MaxPool)

InitQuiz ==
    /\ LoggedInWith(AB, "quiz", 0, PoolLines)
    /\ last = <<CharactersRequest(jar)>>

\* Fewer than MaxQuizzes quizzes of the whole pool are stored
QuizRoom == SumAttempts(readProgress(progFile[AB])) < MaxQuizzes * MaxPool

NextQuiz ==
    \/ \E type \in QuizTypes : ChooseType(type)
    \/ BackToType
    \/ \E count \in countOptions : QuizRoom /\ ChooseCount(count)
    \/ \E isCorrect \in BOOLEAN : Answer(isCorrect)
    \/ HandleNext
    \/ TryAnotherQuiz

SpecQuiz == InitQuiz /\ [][NextQuiz]_vars

\* The state the quiz page is entered in
QuizEntered == InitQuiz

\* C4: when a user who logged in through register or login completes a quiz
\* session of n questions with k of them answered correctly, exactly one
\* entry is appended to that user's quiz-history store, with
\* totalQuestions = n, correctAnswers = k and accuracy = round(k/n * 100).
QuizRecorded ==
    [][(~quizComplete /\ quizComplete') =>
          \E before \in {readHistory(histFile[appUser])},
             after \in {readHistory(histFile'[appUser])} :
             LET n == Len(quizCharacters)
                 k == statsCorrect(sessionStats)
             IN  /\ Len(after) = Len(before) + 1
                 /\ SubSeq(after, 1, Len(before)) = before
                 /\ after[Len(after)].totalQuestions = n
                 /\ after[Len(after)].correctAnswers = k
                 /\ after[Len(after)].accuracy = RoundPercent(k, n)]_vars

----------------------------------------------------------------------------
(* Registration and the data area: from the initial state, requests are     *)
(* sent to the data routes with whatever cookies the client holds (the      *)
(* cookie is a plain name that the client sends, and a client can send any  *)
(* name), and users register and log out.                                   *)

\* The client sets its cookie `user` itself
SendCookie(username) ==
    /\ jar' = [jar EXCEPT !.user = username]
    /\ last' = <<>>
    /\ UNCHANGED <<now, inflight, serverVars, appUser, currentPage, quizVars, dashVars>>

NextFresh ==
    \/ \E username \in Usernames \cup {None} : SendCookie(username)
    \/ \E username \in Usernames : ApiAuth("register", username, Pass)
    \/ ApiCharactersGET
    \/ ApiCharactersPOST(CharactersOf(getUsername(jar)))
    \/ ApiProgressGET
    \/ ApiProgressPOST(ProgressOf(getUsername(jar)))
    \/ ApiHistoryGET(DefaultLimit)
    \/ HistoryRoom /\ ApiHistoryPOST(SessionOf(getUsernameHistory(jar)))

SpecFresh == Init /\ [][NextFresh]_vars

\* The requests of `requests` that registered a user
Registrations(requests) ==
    {i \in AuthRequests(requests, "register") : requests[i].status = 200}

\* C11: immediately after a successful register(u), u's character list,
\* progress mapping and quiz history all read as empty, whatever sequence of
\* requests preceded the registration.
FreshAfterRegister ==
    [][\A i \in Registrations(last') :
          \A u \in {last'[i].req.username} :
              /\ readCharacters(charFile'[getCharactersFile(u)], now) = <<>>
              /\ readProgress(progFile'[getProgressFile(u)]) = <<>>
              /\ readHistory(histFile'[getQuizHistoryFile(u)]) = <<>>]_vars

----------------------------------------------------------------------------
(* Reading the quiz history of "ab", from the initial state of a browser    *)
(* that holds the cookie username=ab: up to MaxReads sessions are appended  *)
(* as under SpecHistory (later timestamps, and the timestamp 0 of a client  *)
(* whose clock is behind), and the history is read without a limit, with    *)
(* the limit 0 and with the limit of the dashboard.                         *)

LimitParams == {None, Digits(0), Digits(DashboardLimit)}

NextReads ==
    \/ \E history \in {readHistory(histFile[AB])} :
           \E newSession \in AppendInputs(history) :
               Len(history) < MaxReads /\ ApiHistoryPOST(newSession)
    \/ \E param \in LimitParams : ApiHistoryGETQuery(param)

SpecReads == InitHistory /\ [][NextReads]_vars

\* The requests of `requests` that GET /api/quiz-history answered with 200
HistoryReads(requests) ==
    {i \in 1..Len(requests) :
        requests[i].op = "GET /api/quiz-history" /\ requests[i].status = 200}

\* The limit N a read asks for: the number written in the query, 10 without
RequestedLimit(param) == IF param = None THEN 10 ELSE ParseDigits(param, 0)

\* C12: a quiz-history read with limit N (default 10) returns
\* min(N, number of stored entries) entries, namely those with the greatest
\* timestamps, ordered newest first, and leaves the store unchanged.
ReadNewest ==
    [][\A i \in HistoryReads(last') :
          \A stored \in {readHistory(histFile[last'[i].cookies.username])},
             body \in {last'[i].body} :
             /\ Len(body) = Min(RequestedLimit(last'[i].req), Len(stored))
             /\ \A k \in 1..(Len(body) - 1) : body[k].timestamp >= body[k + 1].timestamp
             /\ \A s \in Range(body) : Occurrences(body, s) <= Occurrences(stored, s)
             /\ \A s \in Range(stored) :
                    Occurrences(body, s) < Occurrences(stored, s) =>
                        \A k \in 1..Len(body) : s.timestamp <= body[k].timestamp
             /\ histFile' = histFile]_vars

\* A read without a limit has returned 10 of more than 10 sessions, which
\* the file holds in another order than that of their timestamps
ReadTruncated ==
    \E stored \in {readHistory(histFile[AB])} :
        /\ HistoryReads(last) /= {}
        /\ last[1].req = None
        /\ Len(last[1].body) = 10
        /\ Len(stored) > 10
        /\ \E k \in 2..Len(stored) : stored[k].timestamp < stored[k - 1].timestamp

----------------------------------------------------------------------------
(* The session check, from the initial state: a client sends any cookie,    *)
(* registers, logs in and out, and asks GET /api/auth who it is.            *)

\* GET /api/auth
ApiAuthGET ==
    \E reply \in {AuthGET(jar)} :
        /\ jar' = IF reply.cookie = "delete" THEN [jar EXCEPT !.user = None] ELSE jar
        /\ last' = <<Request("GET /api/auth", None, jar, 200, reply.user)>>
        /\ UNCHANGED <<now, inflight, serverVars, appUser, currentPage, quizVars, dashVars>>

NextSession ==
    \/ \E username \in Usernames \cup {None} : SendCookie(username)
    \/ \E action \in AuthActions, username \in Usernames : ApiAuth(action, username, Pass)
    \/ ApiAuthGET

SpecSession == Init /\ [][NextSession]_vars

\* The requests of `requests` that are session checks
SessionChecks(requests) ==
    {i \in 1..Len(requests) : requests[i].op = "GET /api/auth"}

\* C13: the session check reports user u if and only if the request carries
\* a session identity u that is present in the user store; with no identity,
\* or an identity not in the user store, it reports no user (and in the
\* latter case clears the identity).
SessionCheck ==
    [][\A i \in SessionChecks(last') :
          \A u \in {last'[i].cookies.user}, stored \in {MapKeys(loadUsers)} :
             /\ last'[i].body = (IF u /= None /\ u \in stored THEN u ELSE None)
             /\ u /= None /\ u \notin stored => jar'.user = None]_vars

\* A session check of an identity that is not registered, beside a user that
\* is, has reported no user and cleared the identity
UnknownCleared ==
    /\ SessionChecks(last) /= {}
    /\ last[1].cookies.user /= None
    /\ last[1].cookies.user \notin MapKeys(loadUsers)
    /\ MapKeys(loadUsers) /= {}
    /\ last[1].body = None
    /\ jar.user = None

----------------------------------------------------------------------------
(* Deleting characters, from the state in which "ab" and "cd" are           *)
(* registered: "ab" logs in, adds the characters the upload component       *)
(* sends one at a time, deletes by a stored id, by an id that is not       *)
(* stored, all, and without an id, and posts and clears progress and        *)
(* appends quiz sessions.                                                   *)

\* An id no character is stored with
AbsentId == <<"9">>

NextDelete ==
    \/ ApiAuth("login", AB, Pass)
    \/ \E newCharacters \in {b \in BatchInputs : Len(b) = 1} :
           ApiCharactersPOST(newCharacters)
    \/ \E id \in StoredIds \cup {None, All, AbsentId} : ApiCharactersDELETE(id)
    \/ ApiProgressPOST(ProgressOf(getUsername(jar)))
    \/ ApiProgressDELETE
    \/ HistoryRoom /\ ApiHistoryPOST(SessionOf(getUsernameHistory(jar)))

SpecDelete == InitData /\ [][NextDelete]_vars

\* The requests of `requests` that DELETE /api/characters answered with 200
CharacterDeletes(requests) ==
    {i \in 1..Len(requests) :
        requests[i].op = "DELETE /api/characters" /\ requests[i].status = 200}

\* C14: characters delete-by-id removes exactly the records whose id equals
\* the given id and leaves all other character records unchanged and in the
\* same order; delete-all leaves the character store empty; neither
\* operation changes the user's progress store or quiz-history store
\* (progress is cleared only by the explicit progress clear-all).
DeleteFrame ==
    [][/\ \A i \in CharacterDeletes(last') :
             \A u \in {last'[i].cookies.user}, id \in {last'[i].req} :
                \A before \in {readCharacters(charFile[getCharactersFile(u)], now)},
                   after \in {readCharacters(charFile'[getCharactersFile(u)], now')} :
                   /\ after = IF id = All THEN <<>>
                              ELSE SelectSeq(before, LAMBDA c : c.id /= id)
                   /\ progFile' = progFile
                   /\ histFile' = histFile
       /\ \A u \in DirNames :
             readProgress(progFile[u]) /= <<>> /\ readProgress(progFile'[u]) = <<>> =>
                 \E i \in 1..Len(last') :
                     /\ last'[i].op = "DELETE /api/progress"
                     /\ last'[i].cookies.user = u]_vars

\* A stored id has been deleted from a store that still holds two
\* characters, beside progress and quiz sessions of the user
DeletedOne ==
    /\ CharacterDeletes(last) /= {}
    /\ last[1].req \notin {All, AbsentId}
    /\ Len(readCharacters(charFile[AB], now)) = 2
    /\ readProgress(progFile[AB]) /= <<>>
    /\ readHistory(histFile[AB]) /= <<>>

----------------------------------------------------------------------------
(* Concurrent requests to POST /api/progress.  The handler awaits once,     *)
(* request.json() (progress/route.ts line 99), after it has read the        *)
(* cookie and made the directory; from there it reads progress.csv, merges  *)
(* and writes with the synchronous calls of fs and returns.  A request in   *)
(* `inflight` has been received and awaits its body; `received` is a        *)
(* history field, the file as it was when the request arrived.              *)

RemoveAt(seq, k) == SubSeq(seq, 1, k - 1) \o SubSeq(seq, k + 1, Len(seq))

\* The sums of `sums` and of the bodies of the requests in flight
RECURSIVE SubmitAll(_, _)
SubmitAll(sums, requests) ==
    IF requests = <<>> THEN sums
    ELSE SubmitAll(Submit1(sums, Head(requests).newProgress), Tail(requests))

\* POST /api/progress, lines 89 to 99: the request of an authenticated
\* client is taken up
ReceiveProgressPOST(newProgress) ==
    \E username \in {getUsername(jar)} :
        /\ Truthy(username)
        /\ Len(inflight) < MaxInflight
        /\ SumsBounded(Submit1(SubmitAll(submitted[username], inflight), newProgress))
        /\ inflight' = Append(inflight, [cookies     |-> jar,
                                         newProgress |-> newProgress,
                                         received    |-> progFile[getProgressFile(username)]])
        /\ userDirs' = ensureUserDir(username)
        /\ last' = <<>>
        /\ UNCHANGED <<now, usersFile, storeVars, clientVars, quizVars, dashVars>>

\* The k-th request in flight is answered, `file` is written
WriteProgress(k, file) ==
    \E r \in {inflight[k]} :
        /\ progFile' = [progFile EXCEPT ![getProgressFile(getUsername(r.cookies))] = file]
        /\ submitted' = [submitted EXCEPT ![getUsername(r.cookies)] =
                             Submit1(submitted[getUsername(r.cookies)], r.newProgress)]
        /\ inflight' = RemoveAt(inflight, k)
        /\ last' = <<Request("POST /api/progress", r.newProgress, r.cookies, 200, "success")>>
        /\ UNCHANGED <<now, usersFile, userDirs, charFile, histFile, clientVars,
                       quizVars, dashVars>>

\* AnswerProgressPOST merging into the file as it was when the request arrived
AnswerProgressPOSTStale(k) ==
    WriteProgress(k, File(toProgressCSV(mergeProgress(readProgress(inflight[k].received),
                                                      inflight[k].newProgress))))

\* POST /api/progress, lines 101 to 121: the body of the k-th request in
\* flight has arrived
AnswerProgressPOST(k) ==
    \E reply \in {ProgressPOST(inflight[k].cookies, inflight[k].newProgress)} :
        WriteProgress(k, reply.file)

\* The bodies of the concurrent requests: a correct or an incorrect answer
\* for one character, a correct answer for another
RaceInputs ==
    {<<<<Digits(0), Stats(1, 0)>>>>, <<<<Digits(0), Stats(0, 1)>>>>,
     <<<<Digits(1), Stats(1, 0)>>>>}

NextRace ==
    \/ \E newProgress \in RaceInputs : ReceiveProgressPOST(newProgress)
    \/ \E k \in 1..Len(inflight) : AnswerProgressPOST(k)
    \/ ApiProgressGET

SpecRace == InitProgress /\ [][NextRace]_vars

\* The requests in flight that the step answers
Answered ==
    {k \in 1..Len(inflight) :
        /\ inflight' = RemoveAt(inflight, k)
        /\ Len(last') = 1
        /\ last'[1].op = "POST /api/progress"
        /\ last'[1].status = 200
        /\ last'[1].req = inflight[k].newProgress}

\* The counts a progress object holds for a characterId
CountsOf(progress, id) == IF MapHas(progress, id) THEN MapGet(progress, id) ELSE Stats(0, 0)

\* C15, as stated: two concurrent merge-add requests on the same user's
\* progress store interleave so that both read the same pre-update state and
\* the later full-file write discards the increments of the earlier one: a
\* request answered after the store was written since it arrived leaves the
\* store with the state it arrived in plus its own increments.
LostUpdate ==
    [][\A k \in Answered :
          \A r \in {inflight[k]}, u \in {getUsername(inflight[k].cookies)} :
             r.received /= progFile[getProgressFile(u)] =>
                 \A arrived \in {readProgress(r.received)},
                    after \in {readProgress(progFile'[getProgressFile(u)])} :
                    \A id \in ProgressIds :
                        CountsOf(after, id) =
                            Stats(CountsOf(arrived, id).correct
                                      + CountsOf(r.newProgress, id).correct,
                                  CountsOf(arrived, id).incorrect
                                      + CountsOf(r.newProgress, id).incorrect)]_vars

\* C15, for one server process: two concurrent merge-add requests on the same
\* user's progress store are merged one after the other, each into the store
\* as the other left it, and the store holds the sums of the increments of
\* all answered requests: no increment is discarded.
MergesSerialised ==
    [][\A k \in Answered :
          \A r \in {inflight[k]}, u \in {getUsername(inflight[k].cookies)} :
             \A before \in {readProgress(progFile[getProgressFile(u)])},
                after \in {readProgress(progFile'[getProgressFile(u)])} :
                /\ \A id \in ProgressIds :
                       CountsOf(after, id) =
                           Stats(CountsOf(before, id).correct + CountsOf(r.newProgress, id).correct,
                                 CountsOf(before, id).incorrect
                                     + CountsOf(r.newProgress, id).incorrect)
                /\ MapKeys(after) = DOMAIN submitted'[u]
                /\ \A id \in DOMAIN submitted'[u] :
                       CountsOf(after, id) = submitted'[u][id]]_vars

\* A request has been answered and has written the store while another
\* request, which arrived before that, is still in flight
Overlapped ==
    /\ last /= <<>>
    /\ last[1].op = "POST /api/progress"
    /\ last[1].status = 200
    /\ \E k \in 1..Len(inflight) :
           inflight[k].received /= progFile[getProgressFile(getUsername(inflight[k].cookies))]

----------------------------------------------------------------------------
(* The character store under the upload page (SpecChars) *)

\* No two of `characters` agree on the field `field`
Distinct(characters, field) ==
    \A i, j \in 1..Len(characters) :
        characters[i][field] = characters[j][field] => i = j

\* C16: after any sequence of bulk-add, delete-by-id and delete-all
\* operations on a user's character store, no two stored records have the
\* same character (glyph) value, including when a single incoming batch
\* contains the same glyph more than once.
GlyphsUnique ==
    \A u \in DirNames :
        \A characters \in {readCharacters(charFile[u], now)} : Distinct(characters, "character")

----------------------------------------------------------------------------
(* The ids of the character store: "ab", logged in, sends to the characters *)
(* route the bodies the upload component builds, whose ids it makes from    *)
(* the clock, and deletes by id and all, while the clock advances.          *)

NextIds ==
    \/ Tick
    \/ \E newCharacters \in BatchInputs : ApiCharactersPOST(newCharacters)
    \/ \E id \in StoredIds \cup {All} : ApiCharactersDELETE(id)

SpecIds == InitChars /\ [][NextIds]_vars

\* C17: after any sequence of bulk-add and delete operations, no two records
\* in a user's character store have the same id.
IdsUnique ==
    \A u \in DirNames :
        \A characters \in {readCharacters(charFile[u], now)} : Distinct(characters, "id")

----------------------------------------------------------------------------
(* The phases of a quiz session (SpecQuiz) *)

\* The screen QuizMode renders for a pool that is not empty: the type cards
\* while quizType is null, then the count cards while characterCount is
\* null, then the result once quizComplete, else the current question
PhaseOf(type, count, complete) ==
    IF type = Null THEN "type-selection"
    ELSE IF count = NoCount THEN "count-selection"
    ELSE IF complete THEN "completion"
    ELSE "question-loop"

PhaseOrder ==
    {<<"type-selection", "count-selection">>, <<"count-selection", "question-loop">>,
     <<"question-loop", "completion">>}

BackTransitions ==
    {<<"count-selection", "type-selection">>, <<"completion", "type-selection">>}

\* C18: a quiz session moves through its phases only in the order
\* type-selection, count-selection, question-loop, completion; the only
\* backward transitions are the explicit back action from count-selection to
\* type-selection and the explicit restart from completion to
\* type-selection; the quiz type and the selected question set do not change
\* between entering question-loop and reaching completion.
PhasesInOrder ==
    [][\A from \in {PhaseOf(quizType, characterCount, quizComplete)},
          to \in {PhaseOf(quizType', characterCount', quizComplete')} :
          QuizShown /\ QuizShown' =>
              /\ from /= to => <<from, to>> \in PhaseOrder \cup BackTransitions
              /\ from = "question-loop" =>
                     quizType' = quizType /\ quizCharacters' = quizCharacters
              /\ from = "count-selection" /\ to = "type-selection" =>
                     characterCount' = NoCount /\ quizCharacters' = <<>>
              /\ from = "completion" /\ to = "type-selection" => QuizIdle']_vars

\* A session over the whole pool has reached completion with answers of
\* both kinds
SessionCompleted ==
    /\ QuizShown
    /\ PhaseOf(quizType, characterCount, quizComplete) = "completion"
    /\ Len(quizCharacters) = MaxPool
    /\ statsCorrect(sessionStats) > 0
    /\ statsAttempts(sessionStats) > statsCorrect(sessionStats)

----------------------------------------------------------------------------
(* The auto-advance of the quiz: from the state the quiz page is entered    *)
(* in, "ab" takes quizzes, leaves the quiz page for another page and comes  *)
(* back, and logs out.  The browser runs a timeout that is set and not      *)
(* cancelled: HandleNext is weakly fair.  Its fairness is weak fairness of *)
(* HandleNext written out, with the condition under which it is enabled in  *)
(* place of ENABLED: a timeout is pending (TimeoutRuns states that nothing  *)
(* else is needed, and HandleNext always changes timer).                    *)

NextAdvance ==
    \/ \E type \in QuizTypes : ChooseType(type)
    \/ BackToType
    \/ \E count \in countOptions : QuizRoom /\ ChooseCount(count)
    \/ \E isCorrect \in BOOLEAN : Answer(isCorrect)
    \/ HandleNext
    \/ TryAnotherQuiz
    \/ \E page \in Pages : Navigate(page)
    \/ HandleLogout

\* The guards of HandleNext hold whenever a timeout is pending
TimeoutRuns ==
    Pending(timer) =>
        /\ OptionsGenerated(timer.quizType)
        /\ SaveBounded(timer.sessionStats)

FairTimeout == []<>(~Pending(timer)) \/ []<><<HandleNext>>_vars

SpecAdvance == InitQuiz /\ [][NextAdvance]_vars /\ FairTimeout

\* Feedback is shown for question i
FeedbackShown(i) == QuizShown /\ feedback /= Null /\ currentIndex = i

\* The step advances from the current question: to the next one if one
\* remains, otherwise to completion
Advance ==
    /\ feedback' = Null
    /\ sessionStats' = sessionStats
    /\ IF currentIndex < Len(quizCharacters) - 1
       THEN currentIndex' = currentIndex + 1 /\ ~quizComplete'
       ELSE currentIndex' = currentIndex /\ quizComplete'

\* C19: once feedback for a question is shown and the session is not
\* abandoned, the engine eventually advances exactly once, to the next
\* question if one remains, otherwise to completion, and no user input made
\* while the feedback is shown can cancel, postpone or duplicate that advance:
\* while feedback is shown the session takes no step but the advance, a step
\* changes the question or completes the session only as the advance of a
\* shown feedback, and the advance comes.
AdvanceOnce ==
    /\ []TimeoutRuns
    /\ [][(QuizShown /\ feedback /= Null /\ QuizShown') => Advance /\ ~Pending(timer')]_vars
    /\ [][(QuizShown /\ QuizShown' /\ ~quizComplete /\
              (currentIndex' /= currentIndex \/ quizComplete')) =>
              feedback /= Null /\ Pending(timer)]_vars
    /\ \A i \in 0..(MaxPool - 1) :
           FeedbackShown(i) ~>
               (~QuizShown \/ (feedback = Null /\ (currentIndex = i + 1 \/ quizComplete)))

\* The session has advanced from its first question to the second, with one
\* answer counted and no timeout left
AdvancedOnce ==
    /\ QuizShown
    /\ feedback = Null
    /\ ~quizComplete
    /\ currentIndex = 1
    /\ statsAttempts(sessionStats) = 1
    /\ timer = NoTimeout

\* The state of the quiz session
sessionVars ==
    <<quizType, characterCount, quizCharacters, currentIndex, feedback, sessionStats,
      quizComplete, choiceVars>>

\* C20: if the quiz session is torn down while an auto-advance timer is
\* pending, the timer is cancelled: no advance runs afterwards, the session
\* state is not mutated, and nothing from the abandoned session is written to
\* the progress or quiz-history stores.
TeardownCancels ==
    /\ [][(Pending(timer) /\ QuizShown /\ ~QuizShown') => timer' = Cleared]_vars
    /\ [](Pending(timer) => QuizShown /\ feedback /= Null)
    /\ [][(~QuizShown /\ ~QuizShown') => UNCHANGED sessionVars]_vars
    /\ [][~(QuizShown /\ feedback /= Null) =>
              progFile' = progFile /\ histFile' = histFile]_vars

\* The quiz page has been left while the timeout of a shown feedback was
\* pending
TornDownPending == ~QuizShown /\ timer = Cleared


----------------------------------------------------------------------------
(* The merge of a finished quiz: "ab" has registered through the form, has *)
(* uploaded a file of MergePool characters and has opened the quiz page.    *)
(* Up to MaxSessions quizzes over the whole pool are taken, and progress is *)
(* stored once for a character that is not in the pool (one that was        *)
(* quizzed and has been removed since).                                     *)

InitMerge ==
    /\ LoggedInWith(AB, "quiz", 0, SubSeq(PoolLines, 1, MergePool))
    /\ last = <<CharactersRequest(jar)>>

\* The characterId of a character that is no longer in the pool
RemovedId == Digits(0)

\* The body that stores progress for it
RemovedProgress == <<<<RemovedId, Stats(1, 0)>>>>

\* The characterIds of the pool
PoolIds == {allCharacters[i].id : i \in 1..Len(allCharacters)}

\* Every character of the pool has been quizzed fewer than MaxSessions times
SessionRoom ==
    \A stored \in {readProgress(progFile[AB])} :
        \A id \in PoolIds :
            CountsOf(stored, id).correct + CountsOf(stored, id).incorrect < MaxSessions

NextMerge ==
    \/ \E type \in QuizTypes : ChooseType(type)
    \/ BackToType
    \/ \E count \in countOptions : SessionRoom /\ ChooseCount(count)
    \/ \E isCorrect \in BOOLEAN : Answer(isCorrect)
    \/ HandleNext
    \/ TryAnotherQuiz
    \/ /\ ~MapHas(readProgress(progFile[AB]), RemovedId)
       /\ ApiProgressPOST(RemovedProgress)

SpecMerge == InitMerge /\ [][NextMerge]_vars

\* What a session has tallied for a characterId
RECURSIVE Tally(_, _)
Tally(stats, id) ==
    IF stats = <<>> THEN Stats(0, 0)
    ELSE LET rest == Tally(Tail(stats), id)
         IN  IF Head(stats).characterId = id
             THEN Stats(Head(stats).correct + rest.correct,
                        Head(stats).incorrect + rest.incorrect)
             ELSE rest

\* The requests of a step that merge progress
ProgressMerges(requests) ==
    {k \in 1..Len(requests) : requests[k].op = "POST /api/progress"}

\* The step that completes the session
Completes == QuizShown /\ ~quizComplete /\ quizComplete'

\* The step that answers the current question
Answers == QuizShown /\ characterCount /= NoCount /\ feedback = Null /\ feedback' /= Null

\* C21: when a quiz session reaches completion, exactly one progress merge
\* is submitted, carrying for every character answered in the session its
\* session tally (the tally starts empty and each answer adds one to the
\* correct or to the incorrect count of the character asked); afterwards
\* each such character's stored correct and incorrect counts equal their
\* values before plus the session tally, and the stored counts of the
\* characters not in the session are unchanged.  No other step of the quiz
\* submits a merge.
SessionMerged ==
    /\ [](characterCount = NoCount => sessionStats = <<>>)
    /\ [][Answers =>
             \A id \in PoolIds :
                 Tally(sessionStats', id) =
                     IF id /= currentCharacter.id THEN Tally(sessionStats, id)
                     ELSE Stats(Tally(sessionStats, id).correct
                                    + (IF feedback' = "correct" THEN 1 ELSE 0),
                                Tally(sessionStats, id).incorrect
                                    + (IF feedback' = "correct" THEN 0 ELSE 1))]_vars
    /\ [][Completes =>
             \A before \in {readProgress(progFile[appUser])},
                after \in {readProgress(progFile'[appUser])},
                asked \in {{quizCharacters[i].id : i \in 1..Len(quizCharacters)}} :
                 /\ Cardinality(ProgressMerges(last')) = 1
                 /\ \A k \in ProgressMerges(last') :
                        /\ last'[k].status = 200
                        /\ MapKeys(last'[k].req) = asked
                        /\ Len(last'[k].req) = Cardinality(asked)
                        /\ \A id \in asked :
                               /\ MapGet(last'[k].req, id) = Tally(sessionStats, id)
                               /\ Tally(sessionStats, id).correct
                                      + Tally(sessionStats, id).incorrect > 0
                 /\ MapKeys(after) = MapKeys(before) \cup asked
                 /\ \A id \in asked :
                        /\ CountsOf(after, id).correct =
                               CountsOf(before, id).correct + Tally(sessionStats, id).correct
                        /\ CountsOf(after, id).incorrect =
                               CountsOf(before, id).incorrect
                                   + Tally(sessionStats, id).incorrect
                 /\ \A id \in MapKeys(before) \ asked :
                        CountsOf(after, id) = CountsOf(before, id)]_vars
    /\ [][(ProgressMerges(last') /= {} /\ quizVars' /= quizVars) => Completes]_vars

\* A second session has been completed and merged into the counts of the
\* first, beside the counts of a character that was not asked
MergedAgain ==
    /\ QuizShown
    /\ quizComplete
    /\ ProgressMerges(last) /= {}
    /\ \A stored \in {readProgress(progFile[AB])} :
           /\ MapHas(stored, RemovedId)
           /\ \A id \in PoolIds :
                  CountsOf(stored, id).correct + CountsOf(stored, id).incorrect = MaxSessions
           /\ \E id \in PoolIds :
                  CountsOf(stored, id).correct = 1 /\ CountsOf(stored, id).incorrect = 1


----------------------------------------------------------------------------
(* One answer for each question *)

\* The history entries a step has posted
HistoryPosts(requests) ==
    {k \in 1..Len(requests) : requests[k].op = "POST /api/quiz-history"}

\* C22: each presented question records exactly one answer: in every state
\* of the question loop the total of correct + incorrect of the session
\* tally is the number of questions answered so far (the questions before
\* the current one, and the current one once its feedback is shown), at
\* completion it is the number of questions of the quiz, and the history
\* entry sent at completion has correctAnswers <= totalQuestions.
OneAnswerEach ==
    (QuizShown /\ characterCount /= NoCount) =>
        /\ currentIndex < Len(quizCharacters)
        /\ statsAttempts(sessionStats) =
               IF quizComplete THEN Len(quizCharacters)
               ELSE currentIndex + (IF feedback /= Null THEN 1 ELSE 0)
        /\ quizComplete => feedback = Null /\ currentIndex = Len(quizCharacters) - 1
        /\ \A k \in HistoryPosts(last) :
               /\ quizComplete
               /\ last[k].req.totalQuestions = Len(quizCharacters)
               /\ last[k].req.correctAnswers = statsCorrect(sessionStats)
               /\ last[k].req.correctAnswers <= last[k].req.totalQuestions

\* The second question has been answered and its feedback is shown
SecondAnswered ==
    /\ QuizShown
    /\ characterCount /= NoCount
    /\ ~quizComplete
    /\ currentIndex = 1
    /\ feedback = "incorrect"
    /\ statsCorrect(sessionStats) = 1


----------------------------------------------------------------------------
(* The question set: "ab" has registered through the form, has uploaded a   *)
(* file of one to MaxSelect characters that all read alike (the reading     *)
(* quiz then shows one option, whatever the question) and has opened the    *)
(* quiz page; the reading quiz and each of the counts are chosen.           *)

SelectLines ==
    <<<<"A", ",", "x", ",", "m", ",", "A", "B">>,
      <<"B", ",", "x", ",", "n">>,
      <<"C", ",", "x", ",", "m">>,
      <<"D", ",", "x", ",", "n">>,
      <<"E", ",", "x", ",", "m">>,
      <<"F", ",", "x", ",", "n">>,
      <<"G", ",", "x", ",", "n">>>>

InitSelect ==
    \E p \in 1..Min(MaxSelect, Len(SelectLines)) :
        /\ LoggedInWith(AB, "quiz", 0, SubSeq(SelectLines, 1, p))
        /\ last = <<CharactersRequest(jar)>>

NextSelect ==
    \/ ChooseType("recognition")
    \/ BackToType
    \/ \E count \in countOptions : ChooseCount(count)

SpecSelect == InitSelect /\ [][NextSelect]_vars

\* How often c occurs in the sequence s
Count(s, c) == Cardinality({i \in 1..Len(s) : s[i] = c})

\* C23: for a chosen count c in {5, 10, 20, 30} and a pool of p characters,
\* the quiz question set contains exactly min(c, p) characters, each a
\* member of the pool and no pool entry taken more than once.
QuestionSet ==
    (QuizShown /\ characterCount /= NoCount) =>
        /\ characterCount \in countOptions
        /\ Len(quizCharacters) = Min(characterCount, Len(allCharacters))
        /\ \A c \in Range(quizCharacters) :
               /\ c \in Range(allCharacters)
               /\ Count(quizCharacters, c) <= Count(allCharacters, c)

\* Fewer characters than the pool holds were asked for, and the first of
\* the pool is not among the questions
PoolClamped ==
    /\ QuizShown
    /\ characterCount = 5
    /\ Len(allCharacters) > 5
    /\ Len(quizCharacters) = 5
    /\ allCharacters[1] \notin Range(quizCharacters)


----------------------------------------------------------------------------
(* The options of a question: "ab" has registered through the form, has     *)
(* uploaded a file of one to OptionPool characters, with five readings and  *)
(* one glyph stored twice, has opened the quiz page and has begun a reading *)
(* or a multiple-choice quiz of five characters, whose questions are the    *)
(* first of the pool in their order (one of the orders the shuffle gives).  *)
(* The first MaxAsked questions are answered one after the other.          *)

OptionLines ==
    <<<<"A", ",", "x", ",", "m">>,
      <<"B", ",", "y", ",", "n">>,
      <<"C", ",", "x", ",", "k">>,
      <<"D", ",", "z", ",", "l">>,
      <<"E", ",", "w", ",", "m">>,
      <<"A", ",", "v", ",", "n">>,
      <<"G", ",", "u", ",", "k">>>>

InitOptions ==
    \E p \in 1..Min(OptionPool, Len(OptionLines)), type \in {"recognition", "multiple-choice"} :
        /\ RegisteredWith(AB, "quiz", 0, SubSeq(OptionLines, 1, p))
        /\ last = <<>>
        /\ quizType = type
        /\ characterCount = 5
        /\ quizCharacters = Slice(allCharacters, 5)
        /\ currentIndex = 0
        /\ feedback = Null
        /\ sessionStats = <<>>
        /\ quizComplete = FALSE
        /\ timer = NoTimeout
        /\ selectedPinyin = NoSelection
        /\ selectedChoice = NoSelection
        /\ generating = NotGenerating
        /\ IF type = "recognition"
           THEN /\ pinyinOptions \in generatePinyinOptions(0, quizCharacters)
                /\ multipleChoiceOptions = <<>>
           ELSE /\ multipleChoiceOptions \in generateMultipleChoiceOptions(0, quizCharacters)
                /\ pinyinOptions = <<>>

NextOptions ==
    \/ \E isCorrect \in BOOLEAN : Answer(isCorrect)
    \/ currentIndex < MaxAsked - 1 /\ HandleNext

SpecOptions == InitOptions /\ [][NextOptions]_vars

\* A question of the quiz of `type` is shown
Asking(type) == QuizShown /\ quizType = type /\ characterCount /= NoCount /\ ~quizComplete

\* C24: in recognition mode, for every question the option list contains
\* the target character's pinyin exactly once, contains no repeated pinyin
\* string, and has at most 4 entries drawn from the pool; a selected option
\* is scored correct if and only if it equals the target's pinyin.
PinyinOptionsSound ==
    Asking("recognition") =>
        /\ Count(pinyinOptions, currentCharacter.pinyin) = 1
        /\ \A option \in Range(pinyinOptions) :
               /\ Count(pinyinOptions, option) = 1
               /\ \E c \in Range(allCharacters) : c.pinyin = option
        /\ Len(pinyinOptions) <= 4
        /\ feedback = Null <=> selectedPinyin = NoSelection
        /\ feedback /= Null =>
               /\ selectedPinyin[1] \in Range(pinyinOptions)
               /\ feedback = "correct" <=> selectedPinyin[1] = currentCharacter.pinyin
               /\ feedback = "incorrect" <=> selectedPinyin[1] /= currentCharacter.pinyin

\* Four of the five readings of the pool are shown, the reading that two
\* characters share among them, and a wrong one has been selected
FourReadings ==
    /\ Asking("recognition")
    /\ Len(pinyinOptions) = 4
    /\ Cardinality({allCharacters[i].pinyin : i \in 1..Len(allCharacters)}) > 4
    /\ Cardinality({i \in 1..Len(allCharacters) :
                       allCharacters[i].pinyin = currentCharacter.pinyin}) = 2
    /\ feedback = "incorrect"


\* C25: in multiple-choice mode, for every question the option list
\* contains the target character exactly once, contains min(4, pool size)
\* options with pairwise distinct ids, and a selected option is scored
\* correct if and only if its id equals the target's id.
ChoiceOptionsSound ==
    Asking("multiple-choice") =>
        /\ Count(multipleChoiceOptions, currentCharacter) = 1
        /\ Len(multipleChoiceOptions) = Min(4, Len(allCharacters))
        /\ \A i, j \in 1..Len(multipleChoiceOptions) :
               i /= j => multipleChoiceOptions[i].id /= multipleChoiceOptions[j].id
        /\ \A option \in Range(multipleChoiceOptions) : option \in Range(allCharacters)
        /\ feedback = Null <=> selectedChoice = NoSelection
        /\ feedback /= Null =>
               /\ \E option \in Range(multipleChoiceOptions) : option.id = selectedChoice[1]
               /\ feedback = "correct" <=> selectedChoice[1] = currentCharacter.id
               /\ feedback = "incorrect" <=> selectedChoice[1] /= currentCharacter.id

\* Four of the characters of the pool are shown, and the one selected has
\* the glyph of the target and another id
TwinSelected ==
    /\ Asking("multiple-choice")
    /\ Len(multipleChoiceOptions) = 4
    /\ Len(allCharacters) > 4
    /\ feedback = "incorrect"
    /\ \E option \in Range(multipleChoiceOptions) :
           /\ option.id = selectedChoice[1]
           /\ option.character = currentCharacter.character


----------------------------------------------------------------------------
(* The loop of generateMultipleChoiceOptions, pick by pick: "ab" adds       *)
(* characters on the upload page, whose ids addCharacter takes from the     *)
(* clock (so that two characters added within a millisecond share one),     *)
(* opens the quiz page, chooses the writing or the multiple-choice quiz and *)
(* a count.  The browser runs one handler at a time: while the loop runs,   *)
(* nothing else does.                                                       *)

\* The bodies addCharacter sends at the times 0..MaxClock + 1
LoopInputs ==
    {<<Character(Digits(t), glyph, <<"x">>, <<"m">>, <<>>)>> :
        t \in 0..(MaxClock + 1), glyph \in {<<"A">>, <<"B">>, <<"C">>}}

\* The count card, onClick, as far as the while loop of
\* generateMultipleChoiceOptions(0, selected)
BeginCount(count) ==
    /\ ~generating.running
    /\ QuizShown
    /\ quizType \notin {Null, "recognition"}
    /\ characterCount = NoCount
    /\ \E selected \in selectRandomCharacters(count) :
           generating' = Generating(TRUE, count, selected, <<selected[1]>>)
    /\ UNCHANGED <<now, inflight, serverVars, clientVars, dashVars, last, allCharacters,
                   quizType, characterCount, quizCharacters, currentIndex, feedback,
                   sessionStats, quizComplete, timer, choiceVars>>

\* One pass of the while loop, in which Math.random() gives the i-th
\* character of the pool
PickRandomChar(i) ==
    /\ generating.running
    /\ Len(generating.options) < Min(4, Len(allCharacters))
    /\ i \in 1..Len(allCharacters)
    /\ generating' =
           IF \E k \in 1..Len(generating.options) :
                  generating.options[k].id = allCharacters[i].id
           THEN generating
           ELSE [generating EXCEPT !.options = Append(@, allCharacters[i])]
    /\ UNCHANGED <<now, inflight, serverVars, clientVars, dashVars, last, allCharacters,
                   quizType, characterCount, quizCharacters, currentIndex, feedback,
                   sessionStats, quizComplete, timer, choiceVars>>

\* The loop has ended: setMultipleChoiceOptions, and the state the handler
\* has set is rendered
EndCount ==
    /\ generating.running
    /\ Len(generating.options) >= Min(4, Len(allCharacters))
    /\ multipleChoiceOptions' \in Shuffles(generating.options)
    /\ quizCharacters' = generating.selected
    /\ characterCount' = generating.count
    /\ generating' = NotGenerating
    /\ UNCHANGED <<now, inflight, serverVars, clientVars, dashVars, last, allCharacters,
                   quizType, currentIndex, feedback, sessionStats, quizComplete, timer,
                   pinyinOptions, selectedPinyin, selectedChoice>>

NextLoop ==
    \/ /\ ~generating.running
       /\ currentPage = "upload"
       /\ \E newCharacters \in LoopInputs : ApiCharactersPOST(newCharacters)
    \/ /\ ~generating.running
       /\ \E page \in {"upload", "quiz"} : Navigate(page)
    \/ /\ ~generating.running
       /\ \E type \in {"reverse", "multiple-choice"} : ChooseType(type)
    \/ \E count \in countOptions : BeginCount(count)
    \/ \E i \in 1..MaxChars : PickRandomChar(i)
    \/ EndCount

\* Math.random() is fair: a character that can be picked and added is
\* picked in the end; a loop whose condition is false ends
SpecLoop ==
    /\ InitChars
    /\ [][NextLoop]_vars
    /\ \A i \in 1..MaxChars : WF_vars(PickRandomChar(i))
    /\ WF_vars(EndCount)

\* C26: option generation for a multiple-choice question terminates for
\* every non-empty character pool that the characters store can return:
\* under fair random picks the loop of generateMultipleChoiceOptions always
\* reaches min(4, pool size) options.
OptionsReturn ==
    generating.running ~> (~generating.running /\ characterCount /= NoCount)


----------------------------------------------------------------------------
(* The counts over time: from the state the dashboard is entered in after   *)
(* registering, progress is merged and cleared; among the bodies merged are *)
(* one for an id behind a blank and one that takes a correct answer back.   *)

\* A body with a negative increment
NegativeInputs == {<<<<Digits(0), Stats(0 - 1, 0)>>>>}

\* The counts of a progress.csv stay above the model's bound
CountsAbove(file) ==
    \A progress \in {readProgress(file)} :
        \A i \in 1..Len(progress) :
            progress[i][2].correct >= 0 - MaxDebt /\ progress[i][2].incorrect >= 0 - MaxDebt

NextMonotone ==
    \/ \E newProgress \in ProgressInputs : ApiProgressPOST(newProgress)
    \/ \E newProgress \in NegativeInputs :
           /\ CountsAbove(ProgressPOST(jar, newProgress).file)
           /\ ApiProgressPOST(newProgress)
    \/ ApiProgressDELETE

SpecMonotone == InitProgress /\ [][NextMonotone]_vars

\* The step is not an explicit reset
NoReset == \A k \in 1..Len(last') : last'[k].op /= "DELETE /api/progress"

\* Every characterId stored before the step is stored after it, with counts
\* that are not smaller
NotDecreased ==
    \A u \in DirNames :
        \A before \in {readProgress(progFile[u])}, after \in {readProgress(progFile'[u])} :
            \A id \in MapKeys(before) :
                /\ MapHas(after, id)
                /\ MapGet(after, id).correct >= MapGet(before, id).correct
                /\ MapGet(after, id).incorrect >= MapGet(before, id).incorrect

\* The merges of the step are for plain characterIds and add nothing negative
PlainMerges ==
    \A k \in ProgressMerges(last') :
        \A i \in 1..Len(last'[k].req) :
            /\ PlainId(last'[k].req[i][1])
            /\ last'[k].req[i][2].correct >= 0
            /\ last'[k].req[i][2].incorrect >= 0

\* C27, as stated: between explicit resets, the stored correct count and
\* incorrect count of every characterId in a user's progress store never
\* decrease across any sequence of merge-add requests.
CountsNeverDecrease == [][NoReset => NotDecreased]_vars

\* C27, for the requests the quiz sends: between explicit resets, the stored
\* correct count and incorrect count of every characterId in a user's
\* progress store do not decrease in a merge-add request whose characterIds
\* are not empty, hold no comma and neither begin nor end with a blank, and
\* whose increments are not negative.
CountsMonotone == [][(NoReset /\ PlainMerges) => NotDecreased]_vars

\* A count that a negative increment had lowered has been raised again by
\* a merge, beside the counts of another characterId
RaisedAgain ==
    /\ ProgressMerges(last) = {1}
    /\ last[1].status = 200
    /\ last[1].req = <<<<Digits(0), Stats(1, 0)>>>>
    /\ submitted[AB] /= <<>>
    /\ \A stored \in {readProgress(progFile[AB])} :
           /\ MapKeys(stored) = {Digits(0), Digits(1)}
           /\ MapGet(stored, Digits(0)).correct = 0
           /\ MapGet(stored, Digits(1)).incorrect > 0

----------------------------------------------------------------------------
(* Requests that are refused: from the initial state, a client registers  *)
(* and logs in with names and passwords that pass or fail the validations,  *)
(* logs out, and sends every operation of the data routes with the cookies  *)
(* it holds, a delete without an id among them.                             *)

RefusedUsernames == {<<"a">>, AB}

RefusedPasswords == {<<"p", "w", "d">>, Pass, Word}

NextRefused ==
    \/ \E action \in {"register", "login"}, username \in RefusedUsernames,
          password \in RefusedPasswords : ApiAuth(action, username, password)
    \/ \E action \in {"logout", "reset"} : ApiAuth(action, AB, Pass)
    \/ ApiCharactersGET
    \/ ApiCharactersPOST(CharactersOf(getUsername(jar)))
    \/ \E id \in StoredIds \cup {All, None} : ApiCharactersDELETE(id)
    \/ ApiProgressGET
    \/ ApiProgressPOST(ProgressOf(getUsername(jar)))
    \/ ApiProgressDELETE
    \/ ApiHistoryGET(DefaultLimit)
    \/ HistoryRoom /\ ApiHistoryPOST(SessionOf(getUsernameHistory(jar)))

SpecRefused == Init /\ [][NextRefused]_vars

\* The requests of `requests` that ended in an error response
Refused(requests) == {k \in 1..Len(requests) : requests[k].status >= 400}

\* C28: a request that ends in an error response (validation error,
\* duplicate user, invalid credentials, unauthenticated, delete without an
\* id) leaves users.csv and every user's characters.csv, progress.csv and
\* quiz-history.csv as they were before the request; a duplicate
\* registration does not replace the stored password hash.
RefusedLeavesStores ==
    [][Refused(last') /= {} =>
          /\ usersFile' = usersFile
          /\ charFile' = charFile
          /\ progFile' = progFile
          /\ histFile' = histFile]_vars

\* A registration under a name that is taken, with another password, has
\* been refused, and the stored hash is the one of the first registration
DuplicateRefused ==
    /\ Len(last) = 1
    /\ last[1].op = "POST /api/auth"
    /\ last[1].req.action = "register"
    /\ last[1].req.username = AB
    /\ last[1].req.password = Word
    /\ last[1].status = 400
    /\ last[1].body.error = "Username already exists"
    /\ MapHas(loadUsers, AB)
    /\ MapGet(loadUsers, AB) = hashPassword(Pass)
    /\ charFile[AB].exists

----------------------------------------------------------------------------
(* The session of a register or login, as the three data routes see it *)

\* The requests of `requests` that established a session
Established(requests) ==
    {k \in AuthRequests(requests, "register") \cup AuthRequests(requests, "login") :
        requests[k].status = 200}

\* The characters and progress routes take the request with the cookies
\* `cookies` as authenticated, under `username`
DataSession(cookies, username) ==
    /\ getUsername(cookies) = username
    /\ CharactersGET(cookies, now).status = 200
    /\ ProgressGET(cookies).status = 200

\* The quiz-history route takes the request with the cookies `cookies` as
\* authenticated, under `username`
HistorySession(cookies, username) ==
    /\ getUsernameHistory(cookies) = username
    /\ HistoryGET(cookies, DefaultLimit).status = 200

\* C29: the characters, progress and quiz-history routes take the session
\* identity from the cookie that register and login set: with the cookies
\* the browser holds after a successful register or login, every data
\* route treats the request as authenticated, under the username of that
\* register or login.
SessionEverywhere ==
    \A k \in Established(last) :
        /\ DataSession(jar, last[k].req.username)
        /\ HistorySession(jar, last[k].req.username)

----------------------------------------------------------------------------
(* The round trip of the character store: user "ab" is logged in, and       *)
(* batches of one and two records are posted to /api/characters as time     *)
(* passes, with lists and clears in between.  The records have five glyphs; *)
(* one has no phrase, one has no id, one has a comma in its meaning and one *)
(* a comma in its phrase.                                                   *)

RoundInputs ==
    {Character(Digits(0), <<"A">>, <<"x">>, <<"m">>, <<"A", "B">>),
     Character(Digits(1), <<"B">>, <<"y">>, <<"n">>, <<>>),
     Character(<<>>, <<"C">>, <<"x">>, <<"m">>, <<>>),
     Character(Digits(2), <<"D">>, <<"x">>, <<"m", ",", "n">>, <<>>),
     Character(Digits(3), <<"E">>, <<"x">>, <<"m">>, <<"A", ",", "B">>)}

NextRound ==
    \/ Tick
    \/ \E newCharacters \in SeqsUpTo(RoundInputs, MaxBatch) :
           ApiCharactersPOST(newCharacters)
    \/ ApiCharactersGET
    \/ ApiCharactersDELETE(All)

SpecRound == InitChars /\ [][NextRound]_vars

\* The five fields of a record
Fields(c) == <<c.id, c.character, c.pinyin, c.meaning, c.phrase>>

\* The field holds no comma, no newline and no blank at either end
PlainField(f) == Trim(f) = f /\ "," \notin Range(f) /\ "\n" \notin Range(f)

PlainRecord(c) == \A k \in 1..5 : PlainField(Fields(c)[k])

HasComma(c) == \E k \in 1..5 : "," \in Range(Fields(c)[k])

\* Every record of the file is stored with an id
StoredWithIds(file) ==
    \A k \in 1..Len(file.lines) :
        parseCharacterLine(file.lines[k], SplitComma(file.lines[k]), k, now) /= <<>>
            => Truthy(Trim(At(SplitComma(file.lines[k]), 1)))

\* The glyphs of the records of `incoming` are not in the store of user u
NewGlyphs(u, incoming) ==
    \A before \in {readCharacters(charFile[u], now)} :
        \A k \in 1..Len(incoming) :
            \A j \in 1..Len(before) : before[j].character /= incoming[k].character

\* A list made at any time after the step returns what a list made at any
\* time before it returned, followed by the records of `incoming`
ListedBehind(u, incoming) ==
    \A t0 \in 0..now, t1 \in now..MaxClock :
        readCharacters(charFile'[u], t1) = readCharacters(charFile[u], t0) \o incoming

====
